---- MODULE Spec2Model ----
(***************************************************************************)
(* atom2remarkable: the feed run (main.py, AtomFeedProcessor), the path    *)
(* derivation (config.py, Config) and the remote publication gate          *)
(* (remarkable.py, RemarkableUploader) as one state machine.               *)
(*                                                                         *)
(* Strings are TLC strings; a title is a sequence of one-character strings *)
(* so that the character filters of config.py can be computed.  A local    *)
(* path is a record [dirs, stem, suffix]: its pathlib parts are            *)
(* dirs \o <<stem \o suffix>>.  A remote path is the "/"-joined string the *)
(* code hands to the bridge tool.                                          *)
(***************************************************************************)
EXTENDS Integers, Sequences, FiniteSets, TLC

VARIABLES
    pc,              \* position of the run
    OUTPUT_DIR,      \* Config.OUTPUT_DIR, as pathlib parts
    templateOk,      \* the template file can be resolved by the environment
    files,           \* local paths at which a file exists
    partial,         \* the subset of files whose content is a partial write
    dirs,            \* feed directories that exist under OUTPUT_DIR
    store,           \* remote paths (folders and documents) that exist
    stats,           \* self.stats
    feeds,           \* process_all_feeds: the loaded feed list
    feedIdx,         \* process_all_feeds: index of the feed being processed
    generated_pdfs,  \* process_all_feeds: the batch
    feed_title,      \* process_feed: title of the fetched feed
    entries,         \* process_feed: feed.entries
    entryIdx,        \* process_feed: index of the entry being processed
    pdf_paths,       \* process_feed: paths collected for this feed
    last,            \* what the latest entry iteration did (observation)
    rendered,        \* <<entry, feed title, path>> of each fresh render of this run (observation)
    pdf_files,       \* upload_pdfs: its argument
    upIdx,           \* upload_pdfs: index of the path being processed
    uploaded,        \* upload_pdfs: local counter
    failed,          \* upload_pdfs: local counter
    skipped,         \* upload_pdfs: local counter
    upload_results,  \* upload_pdfs: the returned dict (n = -1: not returned)
    cur,             \* what was done for the path being processed (observation)
    gate,            \* how this upload_pdfs call went so far (observation)
    calls,           \* bridge calls made by the latest step (observation)
    runs             \* runs started side by side on the same output directory
                     \* and remote folder: where each is with the shared document

runVars == <<pc, OUTPUT_DIR, templateOk, files, partial, dirs, stats,
             feeds, feedIdx, generated_pdfs, feed_title, entries, entryIdx,
             pdf_paths, last, rendered>>
runRest == <<OUTPUT_DIR, templateOk, files, partial, dirs, stats,
             feeds, feedIdx, generated_pdfs, feed_title, entries, entryIdx,
             pdf_paths, last, rendered, runs>>
gateVars == <<store, pdf_files, upIdx, uploaded, failed, skipped,
              upload_results, cur, gate, calls, runs>>
vars == <<pc, OUTPUT_DIR, templateOk, files, partial, dirs, store,
          stats, feeds, feedIdx, generated_pdfs, feed_title, entries, entryIdx,
          pdf_paths, last, rendered, pdf_files, upIdx, uploaded, failed,
          skipped, upload_results, cur, gate, calls, runs>>

(***************************************************************************)
(* Bounds of the model.                                                    *)
(***************************************************************************)
MaxFeeds == 2        \* feed URLs in the feed list
MaxEntries == 2      \* entries in one fetched feed
MaxBatch == 2        \* paths in a batch handed to upload_pdfs on its own
MaxPre == 1          \* files and remote documents present before the run
MaxRuns == 2         \* runs started side by side

BoundedSeq(S, n) == UNION {[1..k -> S] : k \in 0..n}

(***************************************************************************)
(* config.py                                                               *)
(***************************************************************************)
RECENT_HOURS == 24
REMARKABLE_FOLDER == "AtomFeeds"
DefaultOutputDir == <<"/", "app", "output">>

(***************************************************************************)
(* remarkable.py: results of subprocess.run and what the code reads of     *)
(* them.  kind "exit" is a completed process; "timeout" is TimeoutExpired, *)
(* "notfound" FileNotFoundError, "error" any other raised exception.       *)
(***************************************************************************)
Res(kind, rc, out, err) == [kind |-> kind, rc |-> rc, out |-> out, err |-> err]

Raised == {Res("timeout", 1, "", ""), Res("error", 1, "", "")}

\* str.strip() of the captured output is empty
IsBlank(s) == s \in {"", " ", "\n"}

\* "already exists" in result.stderr.lower()
MentionsAlreadyExists(err) ==
    err \in {"entry already exists", "Error: Entry Already Exists"}

\* `rmapi version`
VersionResults ==
    {Res("exit", 0, "v0.0.32", ""), Res("exit", 1, "", "not configured"),
     Res("notfound", 1, "", "")} \cup Raised

\* `rmapi find path`: a completed find with exit 0 lists the entry exactly
\* when the remote store holds it
FindResults(path) ==
    {Res("exit", 0, IF path \in store THEN path \o "\n" ELSE o, "") : o \in {"", "\n"}}
    \cup {Res("exit", 1, o, "error") : o \in {"", path}}
    \cup Raised

\* `rmapi mkdir path`
MkdirResults(path) ==
    {Res("exit", 0, "", ""), Res("exit", 1, "", "network error")}
    \cup (IF path \in store
          THEN {Res("exit", 1, "", "entry already exists"),
                Res("exit", 1, "", "Error: Entry Already Exists")}
          ELSE {})
    \cup Raised

\* `rmapi put file folder`
PutResults ==
    {Res("exit", 0, "", ""), Res("exit", 1, "", "upload failed")} \cup Raised

\* the remote store after a mkdir or a put of `path`: exit 0 created it, a
\* killed (timed out) process may or may not have created it
StoresAfter(r, path) ==
    IF r.kind = "exit" /\ r.rc = 0 THEN {store \cup {path}}
    ELSE IF r.kind = "timeout" THEN {store, store \cup {path}}
    ELSE {store}

Call(cmd, arg, idx) == [cmd |-> cmd, arg |-> arg, idx |-> idx]

\* check_rmapi_available
check_rmapi_available(r) == r.kind = "exit" /\ r.rc = 0

FindSaysExistsIgnoresOutput(r) == r.kind = "exit" /\ r.rc = 0

\* the find test shared by file_exists_in_remarkable and the two ensure methods
FindSaysExists(r) == r.kind = "exit" /\ r.rc = 0 /\ ~IsBlank(r.out)

FileNeverExists(r) == FALSE

\* file_exists_in_remarkable: any raised error is caught and reported as False
file_exists_in_remarkable(r) == FindSaysExists(r)

\* ensure_folder_exists / ensure_subfolder_exists: mkdir runs only when the
\* find completed without reporting the folder
EnsureCallsMkdir(fr) == fr.kind = "exit" /\ ~FindSaysExists(fr)

EnsureOkToleratesAnyExit(fr, mr) ==
    IF fr.kind # "exit" THEN FALSE
    ELSE IF FindSaysExists(fr) THEN TRUE
    ELSE mr.kind = "exit"

EnsureOk(fr, mr) ==
    IF fr.kind # "exit" THEN FALSE
    ELSE IF FindSaysExists(fr) THEN TRUE
    ELSE IF mr.kind # "exit" THEN FALSE
    ELSE IF mr.rc = 0 THEN TRUE
    ELSE MentionsAlreadyExists(mr.err)

EnsureCalls(path, fr, idx) ==
    IF EnsureCallsMkdir(fr)
    THEN <<Call("find", path, idx), Call("mkdir", path, idx)>>
    ELSE <<Call("find", path, idx)>>

(***************************************************************************)
(* remarkable.py: path derivation                                          *)
(***************************************************************************)
Parts(p) == p.dirs \o <<p.stem \o p.suffix>>

\* upload_pdfs, lines 224-227; "" stands for None (both are falsy where the
\* subfolder is tested)
FeedSubfolder(p) ==
    LET ps == Parts(p)
        n == Len(ps)
    IN  IF n >= 3 /\ ps[n - 2] = "output" THEN ps[n - 1] ELSE ""

get_remarkable_file_path_keeps_suffix(p, feed_subfolder) ==
    IF feed_subfolder # ""
    THEN REMARKABLE_FOLDER \o "/" \o feed_subfolder \o "/" \o p.stem \o p.suffix
    ELSE REMARKABLE_FOLDER \o "/" \o p.stem \o p.suffix

get_remarkable_file_path(p, feed_subfolder) ==
    IF feed_subfolder # ""
    THEN REMARKABLE_FOLDER \o "/" \o feed_subfolder \o "/" \o p.stem
    ELSE REMARKABLE_FOLDER \o "/" \o p.stem

\* upload_pdf, lines 167-180
TargetFolder(feed_subfolder) ==
    IF feed_subfolder # ""
    THEN REMARKABLE_FOLDER \o "/" \o feed_subfolder
    ELSE REMARKABLE_FOLDER

\* what `put file folder` creates in the remote store
PutKey(p, folder) == folder \o "/" \o p.stem

(***************************************************************************)
(* remarkable.py: upload_pdfs, one action per bridge interaction           *)
(***************************************************************************)
NoCur ==
    [idx |-> 0, key |-> "", check1 |-> "none", check2 |-> "none",
     root |-> "none", sub |-> "none", put |-> "none", putPresent |-> FALSE,
     counted |-> "none"]

\* whether the call returned early, and why; the remote keys whose put has
\* failed in this call
NoGate == [aborted |-> "no", putFailed |-> {}]

UnavailableCountedFailed(n) == [uploaded |-> 0, failed |-> n, skipped |-> 0]

\* line 210
UnavailableResult(n) == [uploaded |-> 0, failed |-> 0, skipped |-> n]

NoFolderCountedFailed(n) == [uploaded |-> 0, failed |-> n, skipped |-> 0]

\* line 214
NoFolderResult(n) == [uploaded |-> 0, failed |-> 0, skipped |-> n]

NoResults == [uploaded |-> 0 - 1, failed |-> 0 - 1, skipped |-> 0 - 1]

\* how the code's existence check came out: it reported the entry present, it
\* completed with exit 0 and reported absent, or it did not complete with
\* exit 0 (non-zero exit, timeout, raised error) and reported absent
CheckOutcome(r) ==
    IF file_exists_in_remarkable(r) THEN "present"
    ELSE IF r.kind = "exit" /\ r.rc = 0 THEN "absent"
    ELSE "failed"

CurPath == pdf_files[upIdx]
CurSub == FeedSubfolder(CurPath)
CurKey == get_remarkable_file_path(CurPath, CurSub)

\* the for loop moves to the next path, or leaves the loop
LoopNext ==
    /\ upIdx' = upIdx + 1
    /\ pc' = IF upIdx + 1 > Len(pdf_files) THEN "up_return" ELSE "up_check1"

\* lines 208-210
UploadCheckAvailable ==
    /\ pc = "up_version"
    /\ \E r \in VersionResults :
        /\ calls' = <<Call("version", "", 0)>>
        /\ IF check_rmapi_available(r)
           THEN /\ pc' = "up_root"
                /\ upload_results' = upload_results
                /\ gate' = gate
           ELSE /\ pc' = "up_done"
                /\ upload_results' = UnavailableResult(Len(pdf_files))
                /\ gate' = [gate EXCEPT !.aborted = "unavailable"]
    /\ UNCHANGED <<store, pdf_files, upIdx, uploaded, failed, skipped, cur>>
    /\ UNCHANGED runRest

\* lines 212-218
UploadEnsureRoot ==
    /\ pc = "up_root"
    /\ \E fr \in FindResults(REMARKABLE_FOLDER), mr \in MkdirResults(REMARKABLE_FOLDER) :
        /\ calls' = EnsureCalls(REMARKABLE_FOLDER, fr, 0)
        /\ store' \in (IF EnsureCallsMkdir(fr)
                       THEN StoresAfter(mr, REMARKABLE_FOLDER) ELSE {store})
        /\ IF EnsureOk(fr, mr)
           THEN /\ pc' = IF Len(pdf_files) = 0 THEN "up_return" ELSE "up_check1"
                /\ upload_results' = upload_results
                /\ gate' = gate
           ELSE /\ pc' = "up_done"
                /\ upload_results' = NoFolderResult(Len(pdf_files))
                /\ gate' = [gate EXCEPT !.aborted = "no_root"]
    /\ upIdx' = 1
    /\ uploaded' = 0
    /\ failed' = 0
    /\ skipped' = 0
    /\ UNCHANGED <<pdf_files, cur>>
    /\ UNCHANGED runRest

SkipExistingCountedUploaded ==
    /\ uploaded' = uploaded + 1
    /\ UNCHANGED <<skipped, failed>>
    /\ LoopNext

\* lines 231-234: the entry exists remotely, the path is skipped
SkipExisting ==
    /\ skipped' = skipped + 1
    /\ UNCHANGED <<uploaded, failed>>
    /\ LoopNext

\* lines 222-234: the subfolder, the remote key and the existence check
UploadCheckExists ==
    /\ pc = "up_check1"
    /\ \E r \in FindResults(CurKey) :
        /\ calls' = <<Call("find", CurKey, upIdx)>>
        /\ gate' = gate
        /\ IF file_exists_in_remarkable(r)
           THEN /\ cur' = [NoCur EXCEPT !.idx = upIdx, !.key = CurKey,
                                        !.check1 = "present", !.counted = "skipped"]
                /\ SkipExisting
           ELSE /\ cur' = [NoCur EXCEPT !.idx = upIdx, !.key = CurKey,
                                        !.check1 = CheckOutcome(r)]
                /\ pc' = "up_check2"
                /\ UNCHANGED <<upIdx, uploaded, failed, skipped>>
    /\ UNCHANGED <<store, pdf_files, upload_results>>
    /\ UNCHANGED runRest

UploadUnexpectedErrorEndsLoop ==
    /\ pc = "up_check1"
    /\ calls' = <<>>
    /\ gate' = gate
    /\ failed' = failed + 1
    /\ cur' = [NoCur EXCEPT !.idx = upIdx, !.key = CurKey,
                            !.check1 = "raised", !.counted = "failed"]
    /\ upIdx' = upIdx
    /\ pc' = "up_return"
    /\ UNCHANGED <<store, pdf_files, uploaded, skipped, upload_results>>
    /\ UNCHANGED runRest

\* lines 241-243: an error raised inside the loop body and not caught below it
UploadUnexpectedError ==
    /\ pc = "up_check1"
    /\ calls' = <<>>
    /\ gate' = gate
    /\ failed' = failed + 1
    /\ cur' = [NoCur EXCEPT !.idx = upIdx, !.key = CurKey,
                            !.check1 = "raised", !.counted = "failed"]
    /\ LoopNext
    /\ UNCHANGED <<store, pdf_files, uploaded, skipped, upload_results>>
    /\ UNCHANGED runRest

CountUploadPdfDropsFailure(ok) ==
    /\ uploaded' = IF ok THEN uploaded + 1 ELSE uploaded
    /\ failed' = failed
    /\ LoopNext

\* the path is counted by what upload_pdf returned (lines 236-239)
CountUploadPdf(ok) ==
    /\ uploaded' = IF ok THEN uploaded + 1 ELSE uploaded
    /\ failed' = IF ok THEN failed ELSE failed + 1
    /\ LoopNext

\* upload_pdf, lines 160-164: its own existence check
UploadPdfCheckExists ==
    /\ pc = "up_check2"
    /\ \E r \in FindResults(get_remarkable_file_path(CurPath, CurSub)) :
        /\ calls' = <<Call("find", get_remarkable_file_path(CurPath, CurSub), upIdx)>>
        /\ gate' = gate
        /\ IF file_exists_in_remarkable(r)
           THEN /\ cur' = [cur EXCEPT !.check2 = "present", !.counted = "uploaded"]
                /\ CountUploadPdf(TRUE)
           ELSE /\ cur' = [cur EXCEPT !.check2 = CheckOutcome(r)]
                /\ pc' = "up_ensure_root"
                /\ UNCHANGED <<upIdx, uploaded, failed>>
    /\ UNCHANGED <<store, pdf_files, skipped, upload_results>>
    /\ UNCHANGED runRest

UploadPdfEnsureRootIgnoresFailure ==
    /\ pc = "up_ensure_root"
    /\ \E fr \in FindResults(REMARKABLE_FOLDER), mr \in MkdirResults(REMARKABLE_FOLDER) :
        /\ calls' = EnsureCalls(REMARKABLE_FOLDER, fr, upIdx)
        /\ gate' = gate
        /\ store' \in (IF EnsureCallsMkdir(fr)
                       THEN StoresAfter(mr, REMARKABLE_FOLDER) ELSE {store})
        /\ cur' = [cur EXCEPT !.root = IF EnsureOk(fr, mr) THEN "ok" ELSE "fail"]
        /\ pc' = IF CurSub # "" THEN "up_ensure_sub" ELSE "up_put"
        /\ UNCHANGED <<upIdx, uploaded, failed>>
    /\ UNCHANGED <<pdf_files, skipped, upload_results>>
    /\ UNCHANGED runRest

\* upload_pdf, lines 167-180: the root folder
UploadPdfEnsureRoot ==
    /\ pc = "up_ensure_root"
    /\ \E fr \in FindResults(REMARKABLE_FOLDER), mr \in MkdirResults(REMARKABLE_FOLDER) :
        /\ calls' = EnsureCalls(REMARKABLE_FOLDER, fr, upIdx)
        /\ gate' = gate
        /\ store' \in (IF EnsureCallsMkdir(fr)
                       THEN StoresAfter(mr, REMARKABLE_FOLDER) ELSE {store})
        /\ IF EnsureOk(fr, mr)
           THEN /\ cur' = [cur EXCEPT !.root = "ok"]
                /\ pc' = IF CurSub # "" THEN "up_ensure_sub" ELSE "up_put"
                /\ UNCHANGED <<upIdx, uploaded, failed>>
           ELSE /\ cur' = [cur EXCEPT !.root = "fail", !.counted = "failed"]
                /\ CountUploadPdf(FALSE)
    /\ UNCHANGED <<pdf_files, skipped, upload_results>>
    /\ UNCHANGED runRest

\* upload_pdf, lines 174-176: the feed subfolder
UploadPdfEnsureSub ==
    /\ pc = "up_ensure_sub"
    /\ \E fr \in FindResults(TargetFolder(CurSub)), mr \in MkdirResults(TargetFolder(CurSub)) :
        /\ calls' = EnsureCalls(TargetFolder(CurSub), fr, upIdx)
        /\ gate' = gate
        /\ store' \in (IF EnsureCallsMkdir(fr)
                       THEN StoresAfter(mr, TargetFolder(CurSub)) ELSE {store})
        /\ IF EnsureOk(fr, mr)
           THEN /\ cur' = [cur EXCEPT !.sub = "ok"]
                /\ pc' = "up_put"
                /\ UNCHANGED <<upIdx, uploaded, failed>>
           ELSE /\ cur' = [cur EXCEPT !.sub = "fail", !.counted = "failed"]
                /\ CountUploadPdf(FALSE)
    /\ UNCHANGED <<pdf_files, skipped, upload_results>>
    /\ UNCHANGED runRest

\* upload_pdf, lines 184-204: the put command
UploadPdfPut ==
    /\ pc = "up_put"
    /\ \E r \in PutResults :
        /\ calls' = <<Call("put", TargetFolder(CurSub), upIdx)>>
        /\ gate' = IF r.kind = "exit" /\ r.rc = 0 THEN gate
                   ELSE [gate EXCEPT !.putFailed =
                           @ \cup {PutKey(CurPath, TargetFolder(CurSub))}]
        /\ store' \in StoresAfter(r, PutKey(CurPath, TargetFolder(CurSub)))
        /\ cur' = [cur EXCEPT !.put = r.kind \o (IF r.kind = "exit" /\ r.rc = 0 THEN "0" ELSE ""),
                              !.putPresent = cur.key \in store,
                              !.counted = IF r.kind = "exit" /\ r.rc = 0
                                          THEN "uploaded" ELSE "failed"]
        /\ CountUploadPdf(r.kind = "exit" /\ r.rc = 0)
    /\ UNCHANGED <<pdf_files, skipped, upload_results>>
    /\ UNCHANGED runRest

\* lines 245-246
UploadReturn ==
    /\ pc = "up_return"
    /\ pc' = "up_done"
    /\ calls' = <<>>
    /\ gate' = gate
    /\ upload_results' =
         [uploaded |-> uploaded, failed |-> failed, skipped |-> skipped]
    /\ UNCHANGED <<store, pdf_files, upIdx, uploaded, failed, skipped, cur>>
    /\ UNCHANGED runRest

(***************************************************************************)
(* config.py: cutoff and path derivation                                   *)
(***************************************************************************)
\* A datetime is a number of hours since 2025-07-01 00:00; the model stays
\* inside July 2025.  datetime.now() of the run:
NowHour == 11 * 24 + 12

get_cutoff_time == NowHour - RECENT_HOURS

Digit(n) == <<"0", "1", "2", "3", "4", "5", "6", "7", "8", "9">>[n + 1]
Pad2(n) == Digit(n \div 10) \o Digit(n % 10)

\* published_date.strftime('%m-%d-%Y')
DateStr(t) == "07-" \o Pad2(1 + (t \div 24)) \o "-2025"

\* str.isalnum() on the characters the model uses
AlnumChars == {"a", "b", "c", "A", "B", "C", "F", "G", "1", "2"}
Whitespace == {" ", "\t", "\n"}

SafeCharKeepsColon(c) == c \in AlnumChars \/ c \in {" ", "-", "_", ":"}

SafeChar(c) == c \in AlnumChars \/ c \in {" ", "-", "_"}

RECURSIVE LStrip(_)
LStrip(s) == IF s # <<>> /\ Head(s) \in Whitespace THEN LStrip(Tail(s)) ELSE s

RECURSIVE RStrip(_)
RStrip(s) ==
    IF s # <<>> /\ s[Len(s)] \in Whitespace
    THEN RStrip(SubSeq(s, 1, Len(s) - 1)) ELSE s

\* str.strip()
Strip(s) == RStrip(LStrip(s))

\* s[:n]
Prefix(s, n) == SubSeq(s, 1, IF Len(s) < n THEN Len(s) ELSE n)

RECURSIVE Join(_)
Join(s) == IF s = <<>> THEN "" ELSE Head(s) \o Join(Tail(s))

TitleMax == 60
FeedDirMax == 50

\* get_output_filename, lines 59-65: the title part of the file name
SafeEntryTitle(entry_title) == Prefix(Strip(SelectSeq(entry_title, SafeChar)), TitleMax)

\* get_output_filename: "{date_str} {safe_entry_title}.pdf", as stem and suffix
get_output_filename(entry_title, feed_title_, published_date) ==
    [stem |-> DateStr(published_date) \o " " \o Join(SafeEntryTitle(entry_title)),
     suffix |-> ".pdf"]

\* get_feed_directory
get_feed_directory(feed_title_) ==
    Join(Prefix(Strip(SelectSeq(feed_title_, SafeChar)), FeedDirMax))

(***************************************************************************)
(* main.py: entries                                                        *)
(***************************************************************************)
NoTime == -1        \* the field is absent or None
BadTime == -2       \* the field is present and cannot be converted (ValueError, TypeError)
OverflowTime == -3  \* free text on which the date parser raises OverflowError

\* an attribute the entry does not have (hasattr is False)
NoList == [has |-> FALSE, val |-> <<>>]
NoText == [has |-> FALSE, val |-> ""]

\* an entry as the feed parser yields it; content, summary and description
\* are absent unless set
MkEntry(title, pp, pub, up, norm, tmpl) ==
    [title |-> title, published_parsed |-> pp, published |-> pub,
     updated_parsed |-> up, norm |-> norm, tmpl |-> tmpl,
     content |-> NoList, summary |-> NoText, description |-> NoText]

\* is_entry_recent, lines 153-177: the date sources in order
ResolveDate(entry) ==
    LET a == IF entry.published_parsed >= 0 THEN entry.published_parsed ELSE NoTime
        b == IF a # NoTime THEN a
             ELSE IF entry.published >= 0 THEN entry.published ELSE NoTime
        c == IF b # NoTime THEN b
             ELSE IF entry.updated_parsed >= 0 THEN entry.updated_parsed ELSE NoTime
    IN  c

\* is_entry_recent raises: the free text is parsed (no structured publication
\* date resolved) and the parser raises an error other than ValueError, TypeError
ClassifyRaises(entry) ==
    /\ ~(entry.published_parsed >= 0)
    /\ entry.published = OverflowTime

is_entry_recent_inclusive(entry) ==
    LET d == ResolveDate(entry)
    IN  IF d = NoTime
        THEN [recent |-> FALSE, date |-> NoTime]
        ELSE [recent |-> d >= get_cutoff_time, date |-> d]

\* is_entry_recent: (is_recent, published_date)
is_entry_recent(entry) ==
    LET d == ResolveDate(entry)
    IN  IF d = NoTime
        THEN [recent |-> FALSE, date |-> NoTime]
        ELSE [recent |-> d > get_cutoff_time, date |-> d]

\* generate_pdf, lines 324-336: the resolved output path
OutputPath(out, entry_title, feed_title_, published_date) ==
    LET feed_dir == get_feed_directory(feed_title_)
        name == get_output_filename(entry_title, feed_title_, published_date)
    IN  [dirs |-> IF feed_dir = "" THEN out ELSE out \o <<feed_dir>>,
         stem |-> name.stem, suffix |-> name.suffix]

(***************************************************************************)
(* main.py: load_feeds                                                     *)
(***************************************************************************)
FeedLines == {"# a comment", "", "https://a.example/atom.xml"}

\* the feed list file: absent, unreadable, or its lines
FeedsFiles ==
    {[state |-> "missing", lines |-> <<>>], [state |-> "unreadable", lines |-> <<>>]}
    \cup {[state |-> "ok", lines |-> l] : l \in BoundedSeq(FeedLines, MaxFeeds)}

IsUrlLine(line) == line # "" /\ line # "# a comment"

load_feeds(f) == IF f.state = "ok" THEN SelectSeq(f.lines, IsUrlLine) ELSE <<>>

(***************************************************************************)
(* main.py: extract_entry_data                                             *)
(***************************************************************************)
\* the entry the for loop of process_feed is at
CurEntry == entries[entryIdx]

\* Markup is a sequence of elements, each a tag, attribute names and text;
\* `rejected` marks markup holding a malformed marked section, which the
\* parser refuses (BeautifulSoup raises ParserRejectedMarkup)
El(tag, attrs, text) == [tag |-> tag, attrs |-> attrs, text |-> text]

RECURSIVE AttrText(_)
AttrText(attrs) ==
    IF attrs = <<>> THEN ""
    ELSE " " \o Head(attrs) \o "=\"v\"" \o AttrText(Tail(attrs))

RenderEl(e) ==
    "<" \o e.tag \o AttrText(e.attrs) \o ">" \o e.text \o "</" \o e.tag \o ">"

RECURSIVE RenderEls(_)
RenderEls(els) == IF els = <<>> THEN "" ELSE RenderEl(Head(els)) \o RenderEls(Tail(els))

RejectedMarkup == "<![x[y]]>"

\* the content string of a piece of markup
Render(m) == (IF m.rejected THEN RejectedMarkup ELSE "") \o RenderEls(m.els)

ElementUniverse ==
    {El("p", a, t) : a \in {<<>>, <<"class">>, <<"onclick", "class">>},
                     t \in {"c", "s", "d"}}
    \cup {El("script", <<>>, "x"), El("iframe", <<"src">>, ""),
          El("iframe", <<>>, "")}

MarkupUniverse ==
    {[els |-> els, rejected |-> rj] :
        els \in {<<>>} \cup {<<e>> : e \in ElementUniverse}
                 \cup {<<e, f>> : e \in ElementUniverse, f \in ElementUniverse},
        rj \in BOOLEAN}

\* BeautifulSoup(content, 'html.parser'), line 197
Parse(content) == CHOOSE m \in MarkupUniverse : Render(m) = content

\* line 200 and line 206
ForbiddenTags == {"script", "style", "iframe", "object", "embed"}
safe_attrs == {"href", "src", "alt", "title", "class", "id"}

IsSafeAttr(a) == a \in safe_attrs
IsKeptElement(e) == e.tag \notin ForbiddenTags

\* lines 199-210: the forbidden elements are removed, the attributes filtered
SanitizeEls(els) ==
    LET kept == SelectSeq(els, IsKeptElement)
    IN  [i \in 1..Len(kept) |->
            [kept[i] EXCEPT !.attrs = SelectSeq(kept[i].attrs, IsSafeAttr)]]

\* clean_html_content, lines 190-219: nothing for empty content; the
\* sanitized markup; the content as it came when the sanitizer raises
clean_html_content(content) ==
    IF content = "" THEN ""
    ELSE IF Parse(content).rejected THEN content
    ELSE RenderEls(SanitizeEls(Parse(content).els))

\* lines 226-233: the content source
SelectContent(entry) ==
    IF entry.content.has /\ entry.content.val # <<>> THEN entry.content.val[1]
    ELSE IF entry.summary.has THEN entry.summary.val
    ELSE IF entry.description.has THEN entry.description.val
    ELSE ""

\* lines 243-251: the keys of the dict extract_entry_data returns, with the
\* stripped title (line 224) and the cleaned content (line 236)
extract_entry_data(entry, feed_title_) ==
    [entry_title |-> Strip(entry.title), feed_title |-> feed_title_,
     content |-> clean_html_content(SelectContent(entry)),
     author |-> "", link |-> "", entry_id |-> "",
     generated_date |-> NowHour]

(***************************************************************************)
(* main.py: generate_pdf                                                   *)
(***************************************************************************)
NoPath == [dirs |-> <<>>, stem |-> "", suffix |-> ""]

\* in place of a returned path: generate_pdf returned nothing, an exception
\* left it
Propagated == [dirs |-> <<>>, stem |-> "", suffix |-> "raised"]

GenResult(path, was_skipped, fs, pt, ds, engine, existed) ==
    [path |-> path, was_skipped |-> was_skipped, files |-> fs, partial |-> pt,
     dirs |-> ds, engine |-> engine, existed |-> existed]

ExceptHandlerReraises(fs, pt, ds, engine, existed) ==
    GenResult(Propagated, FALSE, fs, pt, ds, engine, existed)

\* lines 364-367: the catch-all handler reads entry_data['entry_title'] for
\* its log line, then returns (None, False)
ExceptHandler(fs, pt, ds, engine, existed) ==
    IF "entry_title" \in DOMAIN extract_entry_data(CurEntry, feed_title)
    THEN GenResult(NoPath, FALSE, fs, pt, ds, engine, existed)
    ELSE GenResult(Propagated, FALSE, fs, pt, ds, engine, existed)

\* lines 346-362: the document engine writes the file at output_path.  It
\* succeeds, fails before write_pdf is reached (HTML or CSS construction),
\* fails in write_pdf before the file is opened, or fails in write_pdf with
\* the file already opened for writing at output_path.
RenderOutcomes(output_path, ds) ==
    {GenResult(output_path, FALSE, files \cup {output_path}, partial, ds, TRUE, FALSE),
     ExceptHandler(files, partial, ds, FALSE, FALSE),
     ExceptHandler(files, partial, ds, TRUE, FALSE),
     ExceptHandler(files \cup {output_path}, partial \cup {output_path},
                   ds, TRUE, FALSE)}

AlwaysRender(output_path, ds) == RenderOutcomes(output_path, ds)

GateOrRenderIgnoresFile(output_path, ds) == RenderOutcomes(output_path, ds)

\* lines 335-341: the existence check, after the feed directory exists
GateOrRender(output_path, ds) ==
    IF output_path \in files
    THEN {GenResult(output_path, TRUE, files, partial, ds, FALSE, TRUE)}
    ELSE RenderOutcomes(output_path, ds)

\* generate_pdf: the possible (path, was_skipped) with the file system it
\* leaves.  Template resolution and template rendering come first; mkdir of
\* the feed directory may fail only when the directory is not there yet.
generate_pdf(entry, entry_title, published_date, feed_title_) ==
    LET output_path == OutputPath(OUTPUT_DIR, entry_title, feed_title_, published_date)
        existed == output_path \in files
        fails == ExceptHandler(files, partial, dirs, FALSE, existed)
    IN  IF ~templateOk \/ entry.tmpl # "ok"
        THEN {fails}
        ELSE IF output_path.dirs \in dirs
        THEN GateOrRender(output_path, dirs)
        ELSE {fails} \cup GateOrRender(output_path, dirs \cup {output_path.dirs})

(***************************************************************************)
(* main.py: process_all_feeds and process_feed                             *)
(***************************************************************************)
ZeroStats ==
    [feeds_processed |-> 0, feeds_failed |-> 0, entries_found |-> 0,
     entries_recent |-> 0, pdfs_generated |-> 0, pdfs_skipped |-> 0,
     pdfs_failed |-> 0, remarkable_uploaded |-> 0, remarkable_skipped |-> 0,
     remarkable_failed |-> 0]

Bump(s, field) == [s EXCEPT ![field] = @ + 1]

NoLast ==
    [kind |-> "none", entry |-> 0, path |-> NoPath, existed |-> FALSE,
     engine |-> FALSE, feed |-> 0, date |-> NoTime, content |-> ""]

FeedTitles == {<<"F", "!">>}

RecentHour == get_cutoff_time + 1

\* the entries a fetched feed may hold
EntryUniverse ==
    {MkEntry(<<"A", ":", "b">>, RecentHour, NoTime, NoTime, "ok", "ok"),
     MkEntry(<<"A", "b", " ">>, NoTime, NoTime, RecentHour + 1, "ok", "ok"),
     MkEntry(<<"A", "b">>, RecentHour, NoTime, NoTime, "ok", "raise"),
     MkEntry(<<"C">>, NoTime, RecentHour, NoTime, "ok", "ok"),
     MkEntry(<<"C">>, BadTime, BadTime, NoTime, "ok", "ok"),
     MkEntry(<<"C">>, NoTime, OverflowTime, RecentHour, "ok", "ok"),
     MkEntry(<<"B">>, RecentHour, NoTime, NoTime, "raise", "ok")}

ParsedFeeds ==
    {[title |-> t, entries |-> es] :
        t \in FeedTitles, es \in BoundedSeq(EntryUniverse, MaxEntries)}

ProcessAllFeedsStartCountsEmptyList ==
    /\ pc = "start"
    /\ \E f \in FeedsFiles :
        /\ feeds' = load_feeds(f)
        /\ pc' = IF load_feeds(f) = <<>> THEN "done" ELSE "feed"
        /\ stats' = IF load_feeds(f) = <<>>
                    THEN [ZeroStats EXCEPT !.feeds_failed = 1] ELSE ZeroStats
    /\ feedIdx' = 1
    /\ generated_pdfs' = <<>>
    /\ rendered' = {}
    /\ last' = NoLast
    /\ UNCHANGED <<OUTPUT_DIR, templateOk, files, partial, dirs, feed_title,
                   entries, entryIdx, pdf_paths>>
    /\ UNCHANGED gateVars

ProcessAllFeedsStartKeepsRemoteCounts ==
    /\ pc = "start"
    /\ stats' = [ZeroStats EXCEPT
                   !.remarkable_uploaded = stats.remarkable_uploaded,
                   !.remarkable_skipped = stats.remarkable_skipped,
                   !.remarkable_failed = stats.remarkable_failed]
    /\ \E f \in FeedsFiles :
        /\ feeds' = load_feeds(f)
        /\ pc' = IF load_feeds(f) = <<>> THEN "done" ELSE "feed"
    /\ feedIdx' = 1
    /\ generated_pdfs' = <<>>
    /\ rendered' = {}
    /\ last' = NoLast
    /\ UNCHANGED <<OUTPUT_DIR, templateOk, files, partial, dirs, feed_title,
                   entries, entryIdx, pdf_paths>>
    /\ UNCHANGED gateVars

\* lines 437-457
ProcessAllFeedsStart ==
    /\ pc = "start"
    /\ stats' = ZeroStats
    /\ \E f \in FeedsFiles :
        /\ feeds' = load_feeds(f)
        /\ pc' = IF load_feeds(f) = <<>> THEN "done" ELSE "feed"
    /\ feedIdx' = 1
    /\ generated_pdfs' = <<>>
    /\ rendered' = {}
    /\ last' = NoLast
    /\ UNCHANGED <<OUTPUT_DIR, templateOk, files, partial, dirs, feed_title,
                   entries, entryIdx, pdf_paths>>
    /\ UNCHANGED gateVars

\* the for loop of process_all_feeds moves to the next feed, or leaves the loop
FeedLoopNext ==
    /\ feedIdx' = feedIdx + 1
    /\ pc' = IF feedIdx + 1 > Len(feeds) THEN "batch" ELSE "feed"

ProcessFeedFetchFailsCountsProcessed ==
    /\ pc = "feed"
    /\ stats' = [stats EXCEPT !.feeds_processed = @ + 1, !.feeds_failed = @ + 1]
    /\ FeedLoopNext
    /\ last' = [NoLast EXCEPT !.kind = "fetch_failed", !.feed = feedIdx]
    /\ UNCHANGED <<OUTPUT_DIR, templateOk, files, partial, dirs, feeds,
                   generated_pdfs, feed_title, entries, entryIdx, pdf_paths,
                   rendered>>
    /\ UNCHANGED gateVars

\* process_feed, lines 374-377: fetch_feed returned None
ProcessFeedFetchFails ==
    /\ pc = "feed"
    /\ stats' = Bump(stats, "feeds_failed")
    /\ FeedLoopNext
    /\ last' = [NoLast EXCEPT !.kind = "fetch_failed", !.feed = feedIdx]
    /\ UNCHANGED <<OUTPUT_DIR, templateOk, files, partial, dirs, feeds,
                   generated_pdfs, feed_title, entries, entryIdx, pdf_paths,
                   rendered>>
    /\ UNCHANGED gateVars

\* process_feed, lines 379-384: the feed was fetched
ProcessFeedFetched ==
    /\ pc = "feed"
    /\ \E feed \in ParsedFeeds :
        /\ feed_title' = feed.title
        /\ entries' = feed.entries
        /\ stats' = [stats EXCEPT !.feeds_processed = @ + 1,
                                  !.entries_found = @ + Len(feed.entries)]
        /\ pc' = IF feed.entries = <<>> THEN "feed_return" ELSE "entry"
    /\ entryIdx' = 1
    /\ pdf_paths' = <<>>
    /\ UNCHANGED <<OUTPUT_DIR, templateOk, files, partial, dirs, feeds, feedIdx,
                   generated_pdfs, last, rendered>>
    /\ UNCHANGED gateVars

ProcessFeedRaisesEndsRun ==
    /\ pc = "feed"
    /\ stats' = [stats EXCEPT !.feeds_processed = @ + 1, !.feeds_failed = @ + 1]
    /\ feedIdx' = feedIdx
    /\ pc' = "batch"
    /\ last' = [NoLast EXCEPT !.kind = "feed_raised", !.feed = feedIdx]
    /\ UNCHANGED <<OUTPUT_DIR, templateOk, files, partial, dirs, feeds,
                   generated_pdfs, feed_title, entries, entryIdx, pdf_paths,
                   rendered>>
    /\ UNCHANGED gateVars

\* process_feed raises after the fetch (lines 379-384), and process_all_feeds
\* catches it at lines 464-469
ProcessFeedRaises ==
    /\ pc = "feed"
    /\ stats' = [stats EXCEPT !.feeds_processed = @ + 1, !.feeds_failed = @ + 1]
    /\ FeedLoopNext
    /\ last' = [NoLast EXCEPT !.kind = "feed_raised", !.feed = feedIdx]
    /\ UNCHANGED <<OUTPUT_DIR, templateOk, files, partial, dirs, feeds,
                   generated_pdfs, feed_title, entries, entryIdx, pdf_paths,
                   rendered>>
    /\ UNCHANGED gateVars

\* the for loop of process_feed moves to the next entry, or leaves the loop
EntryLoopNext ==
    /\ entryIdx' = entryIdx + 1
    /\ pc' = IF entryIdx + 1 > Len(entries) THEN "feed_return" ELSE "entry"

\* what the iteration on the current entry did; date is the published_date
\* is_entry_recent returned for it (NoTime: None, or nothing returned),
\* content the content of the dict extract_entry_data returned for it
Observed(kind, path, existed, engine) ==
    [kind |-> kind, entry |-> entryIdx, path |-> path, existed |-> existed,
     engine |-> engine, feed |-> feedIdx,
     date |-> IF ClassifyRaises(CurEntry) THEN NoTime
              ELSE is_entry_recent(CurEntry).date,
     content |-> IF kind \in {"classify_raised", "not_recent", "normalize_raised"}
                 THEN ""
                 ELSE extract_entry_data(CurEntry, feed_title).content]

\* lines 387-420 for an entry on which is_entry_recent raises
ProcessEntryClassifyRaises ==
    /\ pc = "entry"
    /\ ClassifyRaises(CurEntry)
    /\ stats' = Bump(stats, "pdfs_failed")
    /\ last' = Observed("classify_raised", NoPath, FALSE, FALSE)
    /\ EntryLoopNext
    /\ UNCHANGED <<OUTPUT_DIR, templateOk, files, partial, dirs, feeds, feedIdx,
                   generated_pdfs, feed_title, entries, pdf_paths, rendered>>
    /\ UNCHANGED gateVars

\* lines 389-392: the entry is not recent
ProcessEntryNotRecent ==
    /\ pc = "entry"
    /\ ~ClassifyRaises(CurEntry)
    /\ ~is_entry_recent(CurEntry).recent
    /\ last' = Observed("not_recent", NoPath, FALSE, FALSE)
    /\ EntryLoopNext
    /\ UNCHANGED <<OUTPUT_DIR, templateOk, files, partial, dirs, stats, feeds,
                   feedIdx, generated_pdfs, feed_title, entries, pdf_paths,
                   rendered>>
    /\ UNCHANGED gateVars

ProcessEntryNormalizeRaisesEndsFeed ==
    /\ pc = "entry"
    /\ ~ClassifyRaises(entries[entryIdx])
    /\ is_entry_recent(entries[entryIdx]).recent
    /\ entries[entryIdx].norm # "ok"
    /\ stats' = [stats EXCEPT !.entries_recent = @ + 1, !.pdfs_failed = @ + 1]
    /\ last' = [kind |-> "normalize_raised", entry |-> entryIdx, path |-> NoPath,
                existed |-> FALSE, engine |-> FALSE, feed |-> feedIdx,
                date |-> is_entry_recent(entries[entryIdx]).date, content |-> ""]
    /\ entryIdx' = entryIdx
    /\ pc' = "feed_return"
    /\ UNCHANGED <<OUTPUT_DIR, templateOk, files, partial, dirs, feeds, feedIdx,
                   generated_pdfs, feed_title, entries, pdf_paths, rendered>>
    /\ UNCHANGED gateVars

\* lines 394-397 and 414-420: extract_entry_data raises on a recent entry
ProcessEntryNormalizeRaises ==
    /\ pc = "entry"
    /\ ~ClassifyRaises(CurEntry)
    /\ is_entry_recent(CurEntry).recent
    /\ CurEntry.norm # "ok"
    /\ stats' = [stats EXCEPT !.entries_recent = @ + 1, !.pdfs_failed = @ + 1]
    /\ last' = Observed("normalize_raised", NoPath, FALSE, FALSE)
    /\ EntryLoopNext
    /\ UNCHANGED <<OUTPUT_DIR, templateOk, files, partial, dirs, feeds, feedIdx,
                   generated_pdfs, feed_title, entries, pdf_paths, rendered>>
    /\ UNCHANGED gateVars

\* lines 404-412: the counters and the collected paths after generate_pdf;
\* an exception leaving generate_pdf is counted at lines 414-420
CountGenerated(g) ==
    IF g.path \notin {NoPath, Propagated}
    THEN /\ stats' = [stats EXCEPT
                        !.entries_recent = @ + 1,
                        !.pdfs_skipped = IF g.was_skipped THEN @ + 1 ELSE @,
                        !.pdfs_generated = IF g.was_skipped THEN @ ELSE @ + 1]
         /\ pdf_paths' = Append(pdf_paths, g.path)
    ELSE /\ stats' = [stats EXCEPT !.entries_recent = @ + 1, !.pdfs_failed = @ + 1]
         /\ pdf_paths' = pdf_paths

\* lines 394-412: a recent entry is normalized and handed to generate_pdf
ProcessEntryGenerate ==
    /\ pc = "entry"
    /\ ~ClassifyRaises(CurEntry)
    /\ is_entry_recent(CurEntry).recent
    /\ CurEntry.norm = "ok"
    /\ \E g \in generate_pdf(CurEntry, Strip(CurEntry.title),
                             is_entry_recent(CurEntry).date, feed_title) :
        /\ files' = g.files
        /\ partial' = g.partial
        /\ dirs' = g.dirs
        /\ CountGenerated(g)
        /\ last' = Observed(IF g.path = Propagated THEN "generate_raised"
                            ELSE IF g.path = NoPath THEN "failed"
                            ELSE IF g.was_skipped THEN "skipped" ELSE "generated",
                            g.path, g.existed, g.engine)
        /\ rendered' = IF g.path \notin {NoPath, Propagated} /\ ~g.was_skipped
                       THEN rendered \cup {<<CurEntry, feed_title, g.path>>}
                       ELSE rendered
    /\ EntryLoopNext
    /\ UNCHANGED <<OUTPUT_DIR, templateOk, feeds, feedIdx, generated_pdfs,
                   feed_title, entries>>
    /\ UNCHANGED gateVars

ProcessFeedReturnReplacesBatch ==
    /\ pc = "feed_return"
    /\ generated_pdfs' = pdf_paths
    /\ FeedLoopNext
    /\ feed_title' = <<>>
    /\ entries' = <<>>
    /\ entryIdx' = 1
    /\ pdf_paths' = <<>>
    /\ UNCHANGED <<OUTPUT_DIR, templateOk, files, partial, dirs, stats, feeds,
                   last, rendered>>
    /\ UNCHANGED gateVars

ProcessFeedReturnPrepends ==
    /\ pc = "feed_return"
    /\ generated_pdfs' = pdf_paths \o generated_pdfs
    /\ FeedLoopNext
    /\ feed_title' = <<>>
    /\ entries' = <<>>
    /\ entryIdx' = 1
    /\ pdf_paths' = <<>>
    /\ UNCHANGED <<OUTPUT_DIR, templateOk, files, partial, dirs, stats, feeds,
                   last, rendered>>
    /\ UNCHANGED gateVars

\* process_feed returns (line 425) and process_all_feeds extends the batch
\* (lines 461-463)
ProcessFeedReturn ==
    /\ pc = "feed_return"
    /\ generated_pdfs' = generated_pdfs \o pdf_paths
    /\ FeedLoopNext
    /\ feed_title' = <<>>
    /\ entries' = <<>>
    /\ entryIdx' = 1
    /\ pdf_paths' = <<>>
    /\ UNCHANGED <<OUTPUT_DIR, templateOk, files, partial, dirs, stats, feeds,
                   last, rendered>>
    /\ UNCHANGED gateVars

\* lines 472-476: a non-empty batch is handed to upload_pdfs
HandBatchToUploader ==
    /\ pc = "batch"
    /\ generated_pdfs # <<>>
    /\ pdf_files' = generated_pdfs
    /\ pc' = "up_version"
    /\ last' = NoLast
    /\ rendered' = {}
    /\ UNCHANGED <<store, upIdx, uploaded, failed, skipped, upload_results, cur,
                   gate, calls, runs>>
    /\ UNCHANGED <<OUTPUT_DIR, templateOk, files, partial, dirs, stats, feeds,
                   feedIdx, generated_pdfs, feed_title, entries, entryIdx, pdf_paths>>

ReturnWithoutUploadSpins ==
    /\ pc = "batch"
    /\ generated_pdfs = <<>>
    /\ pc' = "batch"
    /\ UNCHANGED gateVars
    /\ UNCHANGED runRest

\* line 472 with an empty batch, then lines 481-496
ReturnWithoutUpload ==
    /\ pc = "batch"
    /\ generated_pdfs = <<>>
    /\ pc' = "done"
    /\ UNCHANGED gateVars
    /\ UNCHANGED runRest

\* lines 477-479, then lines 481-496
MergeUploadResults ==
    /\ pc = "up_done"
    /\ stats' = [stats EXCEPT !.remarkable_uploaded = upload_results.uploaded,
                              !.remarkable_skipped = upload_results.skipped,
                              !.remarkable_failed = upload_results.failed]
    /\ pc' = "done"
    /\ UNCHANGED <<OUTPUT_DIR, templateOk, files, partial, dirs, feeds, feedIdx,
                   generated_pdfs, feed_title, entries, entryIdx, pdf_paths,
                   last, rendered>>
    /\ UNCHANGED gateVars

\* main, lines 536-541: the exit code for the returned statistics
ExitCode(s) ==
    IF s.pdfs_failed > 0 /\ s.pdfs_generated = 0 THEN 1
    ELSE IF s.feeds_failed > 0 THEN 2
    ELSE 0

\* main, lines 530-541: process_all_feeds has returned, the process exits
MainExit ==
    /\ pc = "done"
    /\ pc' = IF ExitCode(stats) = 0 THEN "exit_0"
             ELSE IF ExitCode(stats) = 1 THEN "exit_1" ELSE "exit_2"
    /\ UNCHANGED gateVars
    /\ UNCHANGED runRest

(***************************************************************************)
(* Initial states and specifications                                       *)
(***************************************************************************)
\* the remote entries a document uploaded from local path p consists of
RemoteEntries(p) ==
    {REMARKABLE_FOLDER, TargetFolder(FeedSubfolder(p)),
     get_remarkable_file_path(p, FeedSubfolder(p))}

\* remote stores before a run: nothing, folders without documents, or up to
\* MaxPre documents of earlier runs with their folders
InitStores(paths) ==
    {{REMARKABLE_FOLDER, TargetFolder(FeedSubfolder(p))} : p \in paths}
    \cup {UNION {RemoteEntries(p) : p \in S} :
            S \in {T \in SUBSET paths : Cardinality(T) <= MaxPre}}

\* the output paths the entries of the model resolve to
CandidatePaths(out) ==
    {OutputPath(out, Strip(e.title), t, is_entry_recent(e).date) :
        e \in {x \in EntryUniverse : /\ ~ClassifyRaises(x)
                                      /\ is_entry_recent(x).recent
                                      /\ x.norm = "ok"},
        t \in FeedTitles}

\* a run that has not been started
IdleRun == [pc |-> "idle", local |-> "none", remote |-> "none", put |-> "none"]

Runs == 1..MaxRuns

NoRuns == [run \in Runs |-> IdleRun]

InitGate ==
    /\ runs = NoRuns
    /\ pdf_files = <<>>
    /\ upIdx = 1
    /\ uploaded = 0
    /\ failed = 0
    /\ skipped = 0
    /\ upload_results = NoResults
    /\ cur = NoCur
    /\ gate = NoGate
    /\ calls = <<>>

InitRun ==
    /\ stats = ZeroStats
    /\ feeds = <<>>
    /\ feedIdx = 1
    /\ generated_pdfs = <<>>
    /\ feed_title = <<>>
    /\ entries = <<>>
    /\ entryIdx = 1
    /\ pdf_paths = <<>>
    /\ last = NoLast
    /\ rendered = {}

\* the processor has been constructed (lines 19-52) with the default
\* configuration; files of earlier runs may be present, complete or partial
Init ==
    /\ pc = "start"
    /\ OUTPUT_DIR = DefaultOutputDir
    /\ templateOk \in BOOLEAN
    /\ files \in {S \in SUBSET CandidatePaths(DefaultOutputDir) : Cardinality(S) <= MaxPre}
    /\ partial \in SUBSET files
    /\ dirs = {OUTPUT_DIR} \cup {p.dirs : p \in files}
    /\ store \in InitStores(CandidatePaths(DefaultOutputDir))
    /\ InitRun
    /\ InitGate

Next ==
    \/ ProcessAllFeedsStart
    \/ ProcessFeedFetchFails
    \/ ProcessFeedFetched
    \/ ProcessFeedRaises
    \/ ProcessEntryClassifyRaises
    \/ ProcessEntryNotRecent
    \/ ProcessEntryNormalizeRaises
    \/ ProcessEntryGenerate
    \/ ProcessFeedReturn
    \/ HandBatchToUploader
    \/ ReturnWithoutUpload
    \/ UploadCheckAvailable
    \/ UploadEnsureRoot
    \/ UploadCheckExists
    \/ UploadUnexpectedError
    \/ UploadPdfCheckExists
    \/ UploadPdfEnsureRoot
    \/ UploadPdfEnsureSub
    \/ UploadPdfPut
    \/ UploadReturn
    \/ MergeUploadResults
    \/ MainExit

Spec == Init /\ [][Next]_vars

\* the run under weak fairness: the process is scheduled as long as it has a
\* step to take, and every collaborator call returns, fails or times out
\* The run starts on an empty output directory and an empty remote store.
InitFair ==
    /\ Init
    /\ templateOk
    /\ files = {}
    /\ store = {}

SpecFair == InitFair /\ [][Next]_vars /\ WF_vars(Next)

\* upload_pdfs on its own, called with any batch of local paths
UploadPaths ==
    {[dirs |-> <<"/", "app", "output", "Feed A">>, stem |-> "07-28-2025 Post", suffix |-> ".pdf"],
     [dirs |-> <<"/", "app", "output", "Feed A">>, stem |-> "07-28-2025 Other", suffix |-> ".pdf"],
     [dirs |-> <<"/", "app", "output">>, stem |-> "07-28-2025 Post", suffix |-> ".pdf"],
     [dirs |-> <<"/", "data", "pdfs", "Feed A">>, stem |-> "07-28-2025 Post", suffix |-> ".pdf"]}

\* output roots the run can be configured with (OUTPUT_DIR, --output-dir)
OutputDirs == {DefaultOutputDir, <<"/", "data", "pdfs">>}

InitUpload ==
    /\ pc = "up_version"
    /\ OUTPUT_DIR \in OutputDirs
    /\ templateOk = TRUE
    /\ files = UploadPaths
    /\ partial = {}
    /\ dirs = {OUTPUT_DIR} \cup {p.dirs : p \in UploadPaths}
    /\ store \in InitStores(UploadPaths)
    /\ InitRun
    /\ upIdx = 1
    /\ pdf_files \in BoundedSeq(UploadPaths, MaxBatch)
    /\ uploaded = 0
    /\ failed = 0
    /\ skipped = 0
    /\ upload_results = NoResults
    /\ cur = NoCur
    /\ gate = NoGate
    /\ calls = <<>>
    /\ runs = NoRuns

NextUpload ==
    \/ UploadCheckAvailable
    \/ UploadEnsureRoot
    \/ UploadCheckExists
    \/ UploadUnexpectedError
    \/ UploadPdfCheckExists
    \/ UploadPdfEnsureRoot
    \/ UploadPdfEnsureSub
    \/ UploadPdfPut
    \/ UploadReturn

SpecUpload == InitUpload /\ [][NextUpload]_vars

\* the entry loop of process_feed on its own, on a fetched feed of one entry
\* whose three date fields are absent, unusable, or around the cutoff
ClassifyTimes ==
    {NoTime, BadTime, get_cutoff_time - 1, get_cutoff_time, get_cutoff_time + 1}

ClassifyEntries ==
    {MkEntry(<<"C">>, pp, pub, up, "ok", "ok") :
        pp \in ClassifyTimes, pub \in ClassifyTimes \cup {OverflowTime},
        up \in ClassifyTimes}

InitClassify ==
    /\ pc = "entry"
    /\ OUTPUT_DIR = DefaultOutputDir
    /\ templateOk = TRUE
    /\ files = {}
    /\ partial = {}
    /\ dirs = {OUTPUT_DIR}
    /\ store = {}
    /\ stats = [ZeroStats EXCEPT !.feeds_processed = 1, !.entries_found = 1]
    /\ feeds = <<"https://a.example/atom.xml">>
    /\ feedIdx = 1
    /\ generated_pdfs = <<>>
    /\ feed_title \in FeedTitles
    /\ entries \in {<<e>> : e \in ClassifyEntries}
    /\ entryIdx = 1
    /\ pdf_paths = <<>>
    /\ last = NoLast
    /\ rendered = {}
    /\ InitGate

NextClassify ==
    \/ ProcessEntryClassifyRaises
    \/ ProcessEntryNotRecent
    \/ ProcessEntryGenerate
    \/ ProcessFeedReturn

SpecClassify == InitClassify /\ [][NextClassify]_vars

\* the entry loop of process_feed on a fetched feed of one recent entry whose
\* content list, summary and description are absent, empty or filled
ExtractEntries ==
    {[MkEntry(<<"C">>, RecentHour, NoTime, NoTime, "ok", "ok")
        EXCEPT !.content = c, !.summary = sm, !.description = d] :
        c \in {NoList} \cup {[has |-> TRUE, val |-> v] :
                    v \in {<<>>, <<"">>, <<"<p>c</p>">>,
                           <<"<script>x</script><p>c</p>">>}},
        sm \in {NoText, [has |-> TRUE, val |-> ""], [has |-> TRUE, val |-> "<p>s</p>"]},
        d \in {NoText, [has |-> TRUE, val |-> ""], [has |-> TRUE, val |-> "<p>d</p>"]}}

InitExtract ==
    /\ pc = "entry"
    /\ OUTPUT_DIR = DefaultOutputDir
    /\ templateOk = TRUE
    /\ files = {}
    /\ partial = {}
    /\ dirs = {OUTPUT_DIR}
    /\ store = {}
    /\ stats = [ZeroStats EXCEPT !.feeds_processed = 1, !.entries_found = 1]
    /\ feeds = <<"https://a.example/atom.xml">>
    /\ feedIdx = 1
    /\ generated_pdfs = <<>>
    /\ feed_title \in FeedTitles
    /\ entries \in {<<e>> : e \in ExtractEntries}
    /\ entryIdx = 1
    /\ pdf_paths = <<>>
    /\ last = NoLast
    /\ rendered = {}
    /\ InitGate

NextExtract ==
    \/ ProcessEntryGenerate
    \/ ProcessFeedReturn

SpecExtract == InitExtract /\ [][NextExtract]_vars

\* process_all_feeds called again on a processor that has completed a run:
\* the document an earlier run rendered, and what that run left behind (its
\* statistics in self.stats, the file, the remote entries, the counts
\* upload_pdfs returned to it)
EarlierPath == OutputPath(DefaultOutputDir, <<"C">>, <<"F", "!">>, RecentHour)

EarlierRuns ==
    {[stats |-> [ZeroStats EXCEPT !.feeds_processed = 1, !.entries_found = 1,
                                  !.entries_recent = 1, !.pdfs_generated = 1,
                                  !.remarkable_uploaded = 1],
      files |-> {EarlierPath}, store |-> RemoteEntries(EarlierPath),
      results |-> [uploaded |-> 1, failed |-> 0, skipped |-> 0]],
     [stats |-> [ZeroStats EXCEPT !.feeds_processed = 1, !.entries_found = 1,
                                  !.entries_recent = 1, !.pdfs_generated = 1,
                                  !.remarkable_failed = 1],
      files |-> {EarlierPath},
      store |-> {REMARKABLE_FOLDER, TargetFolder(FeedSubfolder(EarlierPath))},
      results |-> [uploaded |-> 0, failed |-> 1, skipped |-> 0]],
     [stats |-> [ZeroStats EXCEPT !.feeds_processed = 1, !.feeds_failed = 1,
                                  !.entries_found = 2, !.pdfs_failed = 2],
      files |-> {}, store |-> {}, results |-> NoResults]}

InitRerun ==
    /\ pc = "start"
    /\ OUTPUT_DIR = DefaultOutputDir
    /\ templateOk = TRUE
    /\ \E r \in EarlierRuns :
        /\ stats = r.stats
        /\ files = r.files
        /\ store = r.store
        /\ upload_results = r.results
    /\ partial = {}
    /\ dirs = {OUTPUT_DIR} \cup {p.dirs : p \in files}
    /\ feeds = <<>>
    /\ feedIdx = 1
    /\ generated_pdfs = <<>>
    /\ feed_title = <<>>
    /\ entries = <<>>
    /\ entryIdx = 1
    /\ pdf_paths = <<>>
    /\ last = NoLast
    /\ rendered = {}
    /\ pdf_files = <<>>
    /\ upIdx = 1
    /\ uploaded = 0
    /\ failed = 0
    /\ skipped = 0
    /\ cur = NoCur
    /\ gate = NoGate
    /\ calls = <<>>
    /\ runs = NoRuns

SpecRerun == InitRerun /\ [][Next]_vars

\* Runs started side by side, each a process of its own with the same
\* configuration, each handling the document at RacePath: generate_pdf from
\* its existence check on, then upload_pdfs for the path.  The output
\* directory (files, partial) and the remote store are shared; a step is one
\* file-system access or one group of bridge calls of one run.
RacePath == EarlierPath
RaceSub == FeedSubfolder(RacePath)
RaceKey == get_remarkable_file_path(RacePath, RaceSub)

raceFixed == <<pc, OUTPUT_DIR, templateOk, dirs, stats, feeds, feedIdx,
               generated_pdfs, feed_title, entries, entryIdx, pdf_paths, last,
               rendered, pdf_files, upIdx, uploaded, failed, skipped,
               upload_results, cur, gate, calls>>

\* generate_pdf, lines 335-341: output_path.exists()
RaceGenerateCheck(run) ==
    /\ runs[run].pc = "gen_check"
    /\ runs' = IF RacePath \in files
               THEN [runs EXCEPT ![run].pc = "up_check1", ![run].local = "skipped"]
               ELSE [runs EXCEPT ![run].pc = "gen_write"]
    /\ UNCHANGED <<files, partial, store>>
    /\ UNCHANGED raceFixed

RaceGenerateWriteExclusive(run) ==
    /\ runs[run].pc = "gen_write"
    /\ IF RacePath \in files
       THEN /\ runs' = [runs EXCEPT ![run].pc = "up_check1", ![run].local = "skipped"]
            /\ UNCHANGED <<files, partial>>
       ELSE \/ /\ files' = files \cup {RacePath}
               /\ partial' = partial \ {RacePath}
               /\ runs' = [runs EXCEPT ![run].pc = "up_check1",
                                       ![run].local = "generated"]
            \/ /\ \/ UNCHANGED <<files, partial>>
                  \/ /\ files' = files \cup {RacePath}
                     /\ partial' = partial \cup {RacePath}
               /\ runs' = [runs EXCEPT ![run].pc = "end", ![run].local = "failed"]
    /\ UNCHANGED store
    /\ UNCHANGED raceFixed

\* generate_pdf, lines 343-367: write_pdf writes the file at output_path, or
\* fails before or after opening it; (None, False) leaves nothing to upload
RaceGenerateWrite(run) ==
    /\ runs[run].pc = "gen_write"
    /\ \/ /\ files' = files \cup {RacePath}
          /\ partial' = partial \ {RacePath}
          /\ runs' = [runs EXCEPT ![run].pc = "up_check1",
                                  ![run].local = "generated"]
       \/ /\ \/ UNCHANGED <<files, partial>>
             \/ /\ files' = files \cup {RacePath}
                /\ partial' = partial \cup {RacePath}
          /\ runs' = [runs EXCEPT ![run].pc = "end", ![run].local = "failed"]
    /\ UNCHANGED store
    /\ UNCHANGED raceFixed

\* upload_pdfs, lines 229-234: the existence check before upload_pdf
RaceUploadCheckExists(run) ==
    /\ runs[run].pc = "up_check1"
    /\ \E fr \in FindResults(RaceKey) :
        runs' = IF file_exists_in_remarkable(fr)
                THEN [runs EXCEPT ![run].pc = "end", ![run].remote = "skipped"]
                ELSE [runs EXCEPT ![run].pc = "up_check2"]
    /\ UNCHANGED <<files, partial, store>>
    /\ UNCHANGED raceFixed

\* upload_pdf, lines 160-164
RaceUploadPdfCheckExists(run) ==
    /\ runs[run].pc = "up_check2"
    /\ \E fr \in FindResults(RaceKey) :
        runs' = IF file_exists_in_remarkable(fr)
                THEN [runs EXCEPT ![run].pc = "end", ![run].remote = "uploaded"]
                ELSE [runs EXCEPT ![run].pc = "up_ensure_root"]
    /\ UNCHANGED <<files, partial, store>>
    /\ UNCHANGED raceFixed

\* upload_pdf, lines 167-180: the root folder, then the feed subfolder
RaceUploadPdfEnsure(run, at, folder, then) ==
    /\ runs[run].pc = at
    /\ \E fr \in FindResults(folder), mr \in MkdirResults(folder) :
        /\ store' \in (IF EnsureCallsMkdir(fr)
                       THEN StoresAfter(mr, folder) ELSE {store})
        /\ runs' = IF EnsureOk(fr, mr)
                   THEN [runs EXCEPT ![run].pc = then]
                   ELSE [runs EXCEPT ![run].pc = "end", ![run].remote = "failed"]
    /\ UNCHANGED <<files, partial>>
    /\ UNCHANGED raceFixed

RaceUploadPdfEnsureRoot(run) ==
    RaceUploadPdfEnsure(run, "up_ensure_root", REMARKABLE_FOLDER,
                        IF RaceSub # "" THEN "up_ensure_sub" ELSE "up_put")

RaceUploadPdfEnsureSub(run) ==
    RaceUploadPdfEnsure(run, "up_ensure_sub", TargetFolder(RaceSub), "up_put")

\* upload_pdf, lines 184-204: the put command
RaceUploadPdfPut(run) ==
    /\ runs[run].pc = "up_put"
    /\ \E pr \in PutResults :
        /\ store' \in StoresAfter(pr, PutKey(RacePath, TargetFolder(RaceSub)))
        /\ runs' = [runs EXCEPT
                      ![run].pc = "end",
                      ![run].put = pr.kind \o (IF pr.kind = "exit" /\ pr.rc = 0
                                               THEN "0" ELSE ""),
                      ![run].remote = IF pr.kind = "exit" /\ pr.rc = 0
                                      THEN "uploaded" ELSE "failed"]
    /\ UNCHANGED <<files, partial>>
    /\ UNCHANGED raceFixed

InitRace ==
    /\ pc = "side_by_side"
    /\ OUTPUT_DIR = DefaultOutputDir
    /\ templateOk = TRUE
    /\ files \in {{}, {RacePath}}
    /\ partial = {}
    /\ dirs = {OUTPUT_DIR, RacePath.dirs}
    /\ store \in {{}, {REMARKABLE_FOLDER, TargetFolder(RaceSub)},
                  RemoteEntries(RacePath)}
    /\ InitRun
    /\ pdf_files = <<>>
    /\ upIdx = 1
    /\ uploaded = 0
    /\ failed = 0
    /\ skipped = 0
    /\ upload_results = NoResults
    /\ cur = NoCur
    /\ gate = NoGate
    /\ calls = <<>>
    /\ runs = [run \in Runs |-> [IdleRun EXCEPT !.pc = "gen_check"]]

NextRace ==
    \E run \in Runs :
        \/ RaceGenerateCheck(run)
        \/ RaceGenerateWrite(run)
        \/ RaceUploadCheckExists(run)
        \/ RaceUploadPdfCheckExists(run)
        \/ RaceUploadPdfEnsureRoot(run)
        \/ RaceUploadPdfEnsureSub(run)
        \/ RaceUploadPdfPut(run)

SpecRace == InitRace /\ [][NextRace]_vars

\* the entry loop of process_feed on one recent entry, over titles and feed
\* titles short and long, with and without characters the file name drops
RECURSIVE Rep(_, _)
Rep(c, n) == IF n = 0 THEN <<>> ELSE <<c>> \o Rep(c, n - 1)

PathLengths == {0, 1, FeedDirMax - 1, FeedDirMax, TitleMax - 1, TitleMax, TitleMax + 1}

PathTitles ==
    {pre \o Rep("A", n) \o post :
        pre \in {<<>>, <<" ">>, <<":">>, <<"b", "!">>},
        n \in PathLengths,
        post \in {<<>>, <<" ">>, <<"-", "_">>, <<":", "c">>}}

PathFeedTitles ==
    {pre \o Rep("F", n) \o post :
        pre \in {<<>>, <<"!", " ">>},
        n \in {0, FeedDirMax - 1, FeedDirMax + 1},
        post \in {<<>>, <<" ", "G">>}}

InitPath ==
    /\ pc = "entry"
    /\ OUTPUT_DIR = DefaultOutputDir
    /\ templateOk = TRUE
    /\ files = {}
    /\ partial = {}
    /\ dirs = {OUTPUT_DIR}
    /\ store = {}
    /\ stats = [ZeroStats EXCEPT !.feeds_processed = 1, !.entries_found = 1]
    /\ feeds = <<"https://a.example/atom.xml">>
    /\ feedIdx = 1
    /\ generated_pdfs = <<>>
    /\ feed_title \in PathFeedTitles
    /\ entries \in {<<MkEntry(t, d, NoTime, NoTime, "ok", "ok")>> :
                      t \in PathTitles, d \in {RecentHour, NowHour}}
    /\ entryIdx = 1
    /\ pdf_paths = <<>>
    /\ last = NoLast
    /\ rendered = {}
    /\ InitGate

NextPath ==
    \/ ProcessEntryGenerate
    \/ ProcessFeedReturn

SpecPath == InitPath /\ [][NextPath]_vars

\* the entry loop of process_feed on one recent entry whose content is any
\* markup of the model
InitSanitize ==
    /\ pc = "entry"
    /\ OUTPUT_DIR = DefaultOutputDir
    /\ templateOk = TRUE
    /\ files = {}
    /\ partial = {}
    /\ dirs = {OUTPUT_DIR}
    /\ store = {}
    /\ stats = [ZeroStats EXCEPT !.feeds_processed = 1, !.entries_found = 1]
    /\ feeds = <<"https://a.example/atom.xml">>
    /\ feedIdx = 1
    /\ generated_pdfs = <<>>
    /\ feed_title \in FeedTitles
    /\ entries \in {<<[MkEntry(<<"C">>, RecentHour, NoTime, NoTime, "ok", "ok")
                          EXCEPT !.content = [has |-> TRUE, val |-> <<Render(m)>>]]>> :
                      m \in MarkupUniverse}
    /\ entryIdx = 1
    /\ pdf_paths = <<>>
    /\ last = NoLast
    /\ rendered = {}
    /\ InitGate

NextSanitize ==
    \/ ProcessEntryGenerate
    \/ ProcessFeedReturn

SpecSanitize == InitSanitize /\ [][NextSanitize]_vars

\* A run that follows a run in which every generate_pdf and every put
\* succeeded: a new process on the output directory and the remote store that
\* run left, fetching feeds whose entries are those the earlier run handled,
\* with a bridge tool whose commands complete and answer by the store.
Resolves(e) == ~ClassifyRaises(e) /\ is_entry_recent(e).recent /\ e.norm = "ok"

EntryPath(e, t) == OutputPath(OUTPUT_DIR, Strip(e.title), t, is_entry_recent(e).date)

\* the entry was handled by the earlier run: its template rendered, and its
\* document, if it has one, is on disk and in the remote store
HandledBefore(e, t) ==
    /\ e.tmpl = "ok"
    /\ Resolves(e) => /\ EntryPath(e, t) \in files
                      /\ RemoteEntries(EntryPath(e, t)) \subseteq store

AgainFetched ==
    /\ ProcessFeedFetched
    /\ \A i \in DOMAIN entries' : HandledBefore(entries'[i], feed_title')

AgainCheckAvailable ==
    /\ UploadCheckAvailable
    /\ gate'.aborted = "no"

AgainEnsureRoot ==
    /\ UploadEnsureRoot
    /\ gate'.aborted = "no"
    /\ calls' = <<Call("find", REMARKABLE_FOLDER, 0)>>

AgainCheckExists ==
    /\ UploadCheckExists
    /\ cur'.check1 \in {"present", "absent"}

InitAgain ==
    /\ pc = "start"
    /\ OUTPUT_DIR = DefaultOutputDir
    /\ templateOk = TRUE
    /\ files \in SUBSET CandidatePaths(DefaultOutputDir)
    /\ partial = {}
    /\ dirs = {OUTPUT_DIR} \cup {p.dirs : p \in files}
    /\ store = UNION {RemoteEntries(p) : p \in files}
    /\ InitRun
    /\ InitGate

NextAgain ==
    \/ ProcessAllFeedsStart
    \/ AgainFetched
    \/ ProcessEntryClassifyRaises
    \/ ProcessEntryNotRecent
    \/ ProcessEntryNormalizeRaises
    \/ ProcessEntryGenerate
    \/ ProcessFeedReturn
    \/ HandBatchToUploader
    \/ ReturnWithoutUpload
    \/ AgainCheckAvailable
    \/ AgainEnsureRoot
    \/ AgainCheckExists
    \/ UploadReturn
    \/ MergeUploadResults

SpecAgain == InitAgain /\ [][NextAgain]_vars

(***************************************************************************)
(* Properties                                                              *)
(***************************************************************************)
SumOfCounts(r) == r.uploaded + r.skipped + r.failed

SkipAll == [uploaded |-> 0, failed |-> 0, skipped |-> Len(pdf_files)]

NoPutIn(cs) == \A i \in 1..Len(cs) : cs[i].cmd # "put"

\* C1: whatever the bridge tool does on each call, the counts upload_pdfs
\* returns add up to the number of paths it was given.
C1_CountsSumToBatch ==
    upload_results # NoResults => SumOfCounts(upload_results) = Len(pdf_files)

C1_Witness ==
    /\ pc = "up_done"
    /\ gate.aborted = "no"
    /\ Len(pdf_files) = 2
    /\ upload_results.uploaded = 1
    /\ upload_results.failed = 1

\* C2 as claimed: put is never invoked for a path whose remote key is in
\* the remote store, whatever the find commands of its existence checks did.
C2_NeverPutWhenPresent == ~(cur.put # "none" /\ cur.putPresent)

\* C2 amended: put is invoked for a path whose remote key is in the remote
\* store only when both existence checks made for the path (upload_pdfs and
\* upload_pdf) did not complete with exit 0; a check that reports the key
\* present is never followed by a put for the path.
C2_PutWhenPresentOnlyAfterFailedChecks ==
    /\ (cur.put # "none" /\ cur.putPresent)
          => (cur.check1 = "failed" /\ cur.check2 = "failed")
    /\ (cur.check1 = "present" \/ cur.check2 = "present") => cur.put = "none"

C2_Witness ==
    /\ cur.key \in store
    /\ cur.check1 = "failed"
    /\ cur.check2 = "present"
    /\ cur.put = "none"
    /\ cur.counted = "uploaded"

\* C3: a path whose existence check in upload_pdfs reports present is
\* counted skipped (not uploaded, not failed) and no put is made for it; when
\* the existence check of upload_pdf reports present, upload_pdf returns
\* success (the path is counted uploaded) without a put.
C3_PresentIsSkippedWithoutPut ==
    /\ [][/\ (pc = "up_check1" /\ cur'.check1 = "present")
               => /\ skipped' = skipped + 1
                  /\ uploaded' = uploaded
                  /\ failed' = failed
                  /\ upIdx' = upIdx + 1
                  /\ pc' \in {"up_check1", "up_return"}
                  /\ NoPutIn(calls')
          /\ (pc = "up_check2" /\ cur'.check2 = "present")
               => /\ uploaded' = uploaded + 1
                  /\ skipped' = skipped
                  /\ failed' = failed
                  /\ upIdx' = upIdx + 1
                  /\ pc' \in {"up_check1", "up_return"}
                  /\ NoPutIn(calls')]_vars
    /\ []((cur.check1 = "present" \/ cur.check2 = "present") => cur.put = "none")
    /\ [](cur.check1 = "present" => cur.counted = "skipped")

C3_Witness ==
    /\ skipped = 1
    /\ uploaded = 1
    /\ cur.idx = 2
    /\ cur.check2 = "present"
    /\ pc = "up_return"

\* C4: when the availability check fails, upload_pdfs returns 0 uploaded,
\* 0 failed and every path skipped, and the version command is the only
\* bridge command of the call.
C4_UnavailableSkipsAll ==
    /\ [](gate.aborted = "unavailable"
            => /\ upload_results = SkipAll
               /\ calls = <<Call("version", "", 0)>>
               /\ cur = NoCur)
    /\ [][gate'.aborted = "unavailable" /\ gate.aborted = "no"
            => pc = "up_version" /\ store' = store]_vars
    /\ [][gate.aborted = "unavailable"
            => calls' = calls /\ store' = store /\ cur' = cur]_vars

C4_Witness ==
    /\ gate.aborted = "unavailable"
    /\ Len(pdf_files) = 2
    /\ upload_results.skipped = 2

\* C5: when the tool is available and the root folder can be neither found
\* nor created, upload_pdfs returns 0 uploaded, 0 failed and every path
\* skipped, and no existence check or put is made for any path.
C5_NoRootFolderSkipsAll ==
    /\ [](gate.aborted = "no_root"
            => /\ upload_results = SkipAll
               /\ cur = NoCur
               /\ upIdx = 1
               /\ \A i \in 1..Len(calls) :
                    /\ calls[i].cmd \in {"find", "mkdir"}
                    /\ calls[i].arg = REMARKABLE_FOLDER
                    /\ calls[i].idx = 0)
    /\ [][gate'.aborted = "no_root" /\ gate.aborted = "no" => pc = "up_root"]_vars
    /\ [][gate.aborted = "no_root"
            => calls' = calls /\ store' = store /\ cur' = cur]_vars

C5_Witness ==
    /\ gate.aborted = "no_root"
    /\ Len(pdf_files) = 2
    /\ Len(calls) = 2
    /\ upload_results.skipped = 2

\* C6: an unexpected error raised while path i is processed adds 1 to failed
\* and nothing else, the loop goes on with path i + 1, and a call that passed
\* its preconditions returns only after every path has been counted.
C6_BatchFailureIsolation ==
    /\ [][(pc = "up_check1" /\ cur'.check1 = "raised")
            => /\ failed' = failed + 1
               /\ uploaded' = uploaded
               /\ skipped' = skipped
               /\ upIdx' = upIdx + 1
               /\ pc' = IF upIdx < Len(pdf_files) THEN "up_check1" ELSE "up_return"]_vars
    /\ [](pc \in {"up_check1", "up_check2", "up_ensure_root", "up_ensure_sub", "up_put"}
            => upIdx \in 1..Len(pdf_files) /\ uploaded + skipped + failed = upIdx - 1)
    /\ []((pc \in {"up_return", "up_done"} /\ gate.aborted = "no")
            => upIdx = Len(pdf_files) + 1 /\ uploaded + skipped + failed = Len(pdf_files))

C6_Witness ==
    /\ cur.check1 = "raised"
    /\ cur.idx = 1
    /\ failed = 1
    /\ Len(pdf_files) = 2
    /\ pc = "up_check1"
    /\ upIdx = 2

\* C7: an exception raised while feed N is processed is caught by
\* process_all_feeds, adds 1 to feeds_failed, and the loop goes on with feed
\* N + 1; the feed loop is left only after the last feed.
C7_FeedFailureIsolation ==
    /\ [][(pc = "feed" /\ last'.kind = "feed_raised" /\ last'.feed = feedIdx)
            => /\ stats'.feeds_failed = stats.feeds_failed + 1
               /\ feedIdx' = feedIdx + 1
               /\ pc' = IF feedIdx < Len(feeds) THEN "feed" ELSE "batch"]_vars
    /\ [](pc \in {"feed", "entry", "feed_return"} => feedIdx \in 1..Len(feeds))
    /\ []((pc \notin {"start", "feed", "entry", "feed_return"} /\ feeds # <<>>)
            => feedIdx = Len(feeds) + 1)

C7_Witness ==
    /\ last.kind = "feed_raised"
    /\ last.feed = 1
    /\ stats.feeds_failed = 1
    /\ feedIdx = 2
    /\ pc = "entry"

\* C8: an error raised while one entry is classified, normalized or rendered
\* adds exactly 1 to pdfs_failed, and the loop goes on with the next entry of
\* the feed; process_feed returns only after the last entry.
C8_EntryFailureIsolation ==
    /\ [][(/\ pc = "entry"
           /\ last'.kind \in {"classify_raised", "normalize_raised", "failed"})
            => /\ stats'.pdfs_failed = stats.pdfs_failed + 1
               /\ stats'.pdfs_generated = stats.pdfs_generated
               /\ stats'.pdfs_skipped = stats.pdfs_skipped
               /\ last'.entry = entryIdx
               /\ entryIdx' = entryIdx + 1
               /\ pc' = IF entryIdx < Len(entries) THEN "entry" ELSE "feed_return"]_vars
    /\ [](pc = "entry" => entryIdx \in 1..Len(entries))
    /\ [](pc = "feed_return" => entryIdx = Len(entries) + 1)

C8_Witness ==
    /\ last.kind = "normalize_raised"
    /\ last.entry = 1
    /\ stats.pdfs_failed = 1
    /\ entryIdx = 2
    /\ pc = "entry"

\* C9 as claimed: whenever a file exists at the path resolved for a recent
\* entry, generate_pdf reports the entry skipped with that path, the document
\* engine is not invoked, and the entry is counted skipped, whatever template
\* resolution and template rendering do.
C9_ExistingFileIsSkipped ==
    (last.kind \in {"skipped", "generated", "failed"} /\ last.existed)
        => (last.kind = "skipped" /\ last.path \in files /\ ~last.engine)

\* C10: once generate_pdf has rendered an entry in this run, a further call
\* for the same entry and feed title returns the path of the first call with
\* skipped = true and does not invoke the document engine.
C10_SecondCallSkips ==
    [][\A r \in rendered :
         (pc = "entry" /\ r[1] = CurEntry /\ r[2] = feed_title)
            => /\ last'.kind = "skipped"
               /\ last'.path = r[3]
               /\ ~last'.engine
               /\ files' = files
               /\ stats'.pdfs_skipped = stats.pdfs_skipped + 1
               /\ stats'.pdfs_generated = stats.pdfs_generated]_vars

C10_Witness ==
    /\ pc = "feed_return"
    /\ Len(entries) = 2
    /\ entries[1] = entries[2]
    /\ last.kind = "skipped"
    /\ last.entry = 2
    /\ <<entries[2], feed_title, last.path>> \in rendered
    /\ stats.pdfs_generated = 1
    /\ stats.pdfs_skipped = 1

ResolvedPath ==
    OutputPath(OUTPUT_DIR, Strip(CurEntry.title), feed_title,
               is_entry_recent(CurEntry).date)

Exits == {"exit_0", "exit_1", "exit_2"}

\* C11 as claimed: no step of a run, a failing document engine included,
\* leaves a partially written file at a canonical output path.
C11_FileCompleteOrAbsent ==
    [][\A p \in files' : p \in partial' => p \in partial]_vars

\* C12: generate_pdf never lets an exception reach its caller; a failure in
\* template resolution, template rendering, directory creation or the
\* document engine returns (no path, skipped = false), and a fresh render
\* returns (path, skipped = false) with the file written.
C12_GeneratePdfNeverPropagates ==
    /\ [](last.kind # "generate_raised")
    /\ [](last.kind = "failed" => last.path = NoPath)
    /\ [](last.kind = "generated"
            => /\ last.path \notin {NoPath, Propagated}
               /\ last.path \in files
               /\ last.engine
               /\ ~last.existed)
    /\ [][(/\ pc = "entry"
           /\ ~ClassifyRaises(CurEntry)
           /\ is_entry_recent(CurEntry).recent
           /\ CurEntry.norm = "ok")
            => last'.kind \in {"failed", "skipped", "generated"}]_vars

C12_Witness ==
    /\ last.kind = "failed"
    /\ last.engine
    /\ last.path = NoPath
    /\ stats.pdfs_failed = 1
    /\ pc = "entry"

\* C13: a failed fetch adds exactly 1 to feeds_failed, changes no other
\* counter, and the loop goes on with the next feed; a fetched feed adds
\* exactly 1 to feeds_processed and its number of entries to entries_found.
C13_FetchAccounting ==
    [][pc = "feed"
        => /\ (last'.kind = "fetch_failed" /\ last'.feed = feedIdx)
                => /\ stats' = [stats EXCEPT !.feeds_failed = @ + 1]
                   /\ feedIdx' = feedIdx + 1
                   /\ pc' = IF feedIdx < Len(feeds) THEN "feed" ELSE "batch"
                   /\ files' = files
                   /\ generated_pdfs' = generated_pdfs
           /\ pc' \in {"entry", "feed_return"}
                => /\ stats' = [stats EXCEPT !.feeds_processed = @ + 1,
                                             !.entries_found = @ + Len(entries')]
                   /\ feedIdx' = feedIdx]_vars

C13_Witness ==
    /\ last.kind = "fetch_failed"
    /\ last.feed = 1
    /\ feedIdx = 2
    /\ pc = "entry"
    /\ Len(entries) = 2
    /\ stats.feeds_failed = 1
    /\ stats.feeds_processed = 1
    /\ stats.entries_found = 2

\* C14 as claimed: a not-recent entry changes no counter and is neither
\* normalized nor rendered; a recent entry adds 1 to entries_recent and 1 to
\* exactly one of pdfs_skipped, pdfs_generated, pdfs_failed, and it is
\* pdfs_skipped exactly when a file is already at the resolved path.
C14_EntryAccounting ==
    [][(pc = "entry" /\ ~ClassifyRaises(CurEntry))
        => IF ~is_entry_recent(CurEntry).recent
           THEN /\ stats' = stats
                /\ files' = files
                /\ pdf_paths' = pdf_paths
                /\ last'.kind = "not_recent"
           ELSE /\ stats'.entries_recent = stats.entries_recent + 1
                /\ (stats'.pdfs_skipped - stats.pdfs_skipped)
                     + (stats'.pdfs_generated - stats.pdfs_generated)
                     + (stats'.pdfs_failed - stats.pdfs_failed) = 1
                /\ stats'.pdfs_skipped \in {stats.pdfs_skipped, stats.pdfs_skipped + 1}
                /\ stats'.pdfs_generated \in {stats.pdfs_generated, stats.pdfs_generated + 1}
                /\ stats'.pdfs_failed \in {stats.pdfs_failed, stats.pdfs_failed + 1}
                /\ (stats'.pdfs_skipped = stats.pdfs_skipped + 1) <=> (ResolvedPath \in files)
                /\ (stats'.pdfs_generated = stats.pdfs_generated + 1)
                     => (last'.engine /\ ResolvedPath \in files')]_vars

\* C15: the batch holds exactly the paths of the entries counted generated
\* or skipped, in order, and no path for a failed entry; upload_pdfs is called
\* exactly when the batch is not empty, with the batch, and its three counts
\* become remarkable_uploaded, remarkable_skipped and remarkable_failed.
C15_BatchAndMerge ==
    /\ [](Len(generated_pdfs) + Len(pdf_paths)
            = stats.pdfs_generated + stats.pdfs_skipped)
    /\ [](\A i \in 1..Len(generated_pdfs) : generated_pdfs[i] \in files)
    /\ [][pc = "entry"
            => pdf_paths' = IF last'.kind \in {"skipped", "generated"}
                            THEN Append(pdf_paths, last'.path)
                            ELSE pdf_paths]_vars
    /\ [][pc = "batch"
            => IF generated_pdfs # <<>>
               THEN pc' = "up_version" /\ pdf_files' = generated_pdfs
               ELSE pc' = "done" /\ upload_results' = NoResults /\ calls' = <<>>]_vars
    /\ [](pc \in {"up_version", "up_root", "up_check1", "up_check2", "up_ensure_root",
                  "up_ensure_sub", "up_put", "up_return", "up_done"}
            => pdf_files = generated_pdfs /\ generated_pdfs # <<>>)
    /\ []((pc \in {"done"} \cup Exits /\ generated_pdfs # <<>>)
            => /\ stats.remarkable_uploaded = upload_results.uploaded
               /\ stats.remarkable_skipped = upload_results.skipped
               /\ stats.remarkable_failed = upload_results.failed)
    /\ []((pc \in {"done"} \cup Exits /\ generated_pdfs = <<>>)
            => /\ upload_results = NoResults
               /\ stats.remarkable_uploaded = 0
               /\ stats.remarkable_skipped = 0
               /\ stats.remarkable_failed = 0)

C15_Witness ==
    /\ pc = "done"
    /\ Len(generated_pdfs) = 2
    /\ stats.pdfs_generated = 1
    /\ stats.pdfs_skipped = 1
    /\ stats.pdfs_failed = 1
    /\ stats.remarkable_uploaded = 1
    /\ stats.remarkable_failed = 1

\* C16: with an empty feed list (no URL line, or the file missing or
\* unreadable) process_all_feeds returns at once with all ten counters zero,
\* and nothing is fetched, rendered or sent to the bridge tool.
C16_EmptyFeedList ==
    /\ [][(pc = "start" /\ feeds' = <<>>)
            => /\ pc' = "done"
               /\ stats' = ZeroStats
               /\ files' = files
               /\ store' = store
               /\ calls' = <<>>]_vars
    /\ []((pc \in {"done"} \cup Exits /\ feeds = <<>>)
            => /\ stats = ZeroStats
               /\ last = NoLast
               /\ rendered = {}
               /\ generated_pdfs = <<>>
               /\ upload_results = NoResults
               /\ gate = NoGate
               /\ calls = <<>>)

C16_Witness ==
    /\ pc = "done"
    /\ feeds = <<>>
    /\ stats = ZeroStats

\* C17: an entry whose date resolves to t is recent exactly when t is
\* strictly after the cutoff: before the cutoff it is not recent, at the
\* cutoff it is not recent, after the cutoff it is recent.
C17_StrictCutoff ==
    (pc = "feed_return" /\ last.kind # "classify_raised"
        /\ ResolveDate(entries[1]) # NoTime)
      => LET t == ResolveDate(entries[1])
         IN  /\ last.date = t
             /\ t < get_cutoff_time => last.kind = "not_recent"
             /\ t = get_cutoff_time => last.kind = "not_recent"
             /\ t > get_cutoff_time => last.kind \in {"failed", "skipped", "generated"}

C17_Witness ==
    /\ pc = "feed_return"
    /\ last.kind = "not_recent"
    /\ last.date = get_cutoff_time
    /\ ResolveDate(entries[1]) = get_cutoff_time

NoDateResolves(entry) ==
    /\ entry.published_parsed \in {NoTime, BadTime}
    /\ entry.published \in {NoTime, BadTime, OverflowTime}
    /\ entry.updated_parsed \in {NoTime, BadTime}

\* C18 as claimed: for an entry none of whose three date fields resolves
\* (absent, empty or unparsable) is_entry_recent returns (false, no
\* timestamp), and the entry is neither rendered nor collected for upload.
C18_NoDateIsNotRecent ==
    (pc = "feed_return" /\ NoDateResolves(entries[1]))
      => /\ last.kind = "not_recent"
         /\ last.date = NoTime
         /\ files = {}
         /\ pdf_paths = <<>>

\* C20 as claimed: the process exits with status 0 exactly when the
\* returned statistics show pdfs_failed = 0 and feeds_failed = 0.
C20_ExitStatus ==
    pc \in Exits
      => (pc = "exit_0" <=> (stats.pdfs_failed = 0 /\ stats.feeds_failed = 0))

\* C21 as claimed: the process exits with the total-failure status 1 only
\* when a document failed and no recent entry of the run was resolved to a
\* document, freshly generated or already present.
C21_TotalFailureOnlyWhenNothingResolved ==
    pc = "exit_1"
      => /\ stats.pdfs_failed > 0
         /\ stats.pdfs_generated = 0
         /\ stats.pdfs_skipped = 0

\* the first of the three date sources, in the order structured publication,
\* free-text publication, structured update, that holds a timestamp
FirstTimestamp(entry) ==
    IF entry.published_parsed >= 0 THEN entry.published_parsed
    ELSE IF entry.published >= 0 THEN entry.published
    ELSE IF entry.updated_parsed >= 0 THEN entry.updated_parsed
    ELSE NoTime

\* C22 as claimed: is_entry_recent returns the timestamp of the first source
\* that yields one, in the order structured publication timestamp, free-text
\* publication timestamp, structured update timestamp.
C22_DateResolutionOrder ==
    pc = "feed_return" => last.date = FirstTimestamp(entries[1])

\* the first non-empty of the first value of the content list, the summary
\* and the description
FirstNonEmptyContent(entry) ==
    IF entry.content.has /\ entry.content.val # <<>> /\ entry.content.val[1] # ""
    THEN entry.content.val[1]
    ELSE IF entry.summary.has /\ entry.summary.val # "" THEN entry.summary.val
    ELSE IF entry.description.has /\ entry.description.val # ""
    THEN entry.description.val
    ELSE ""

\* C23 as claimed: the content extract_entry_data returns is the cleaned
\* first non-empty of the content list's first value, the summary and the
\* description, and the empty string when all are empty or missing.
C23_ContentFallback ==
    (pc = "feed_return" /\ last.kind \in {"failed", "skipped", "generated"})
      => last.content = clean_html_content(FirstNonEmptyContent(entries[1]))

\* the program positions of the upload gate
UploadPcs ==
    {"up_version", "up_root", "up_check1", "up_check2", "up_ensure_root",
     "up_ensure_sub", "up_put", "up_return", "up_done"}

\* C24: feeds are processed one at a time in feed-list order, entries in the
\* order the parsed feed yields them, uploads one at a time in batch order;
\* the batch keeps that order (each feed's paths, in entry order, are added
\* behind those of the feeds before it, and the uploader gets the batch as it
\* is); every render of the run precedes the first bridge call; the bridge
\* calls of one step all belong to the batch element the loop is at, and the
\* loop never goes back to an earlier element.
C24_Ordering ==
    [][/\ (feedIdx' # feedIdx => feedIdx' = feedIdx + 1)
       /\ (entryIdx' # entryIdx => (entryIdx' = entryIdx + 1 \/ entryIdx' = 1))
       /\ (pdf_paths' # pdf_paths
             => \/ pdf_paths' = <<>>
                \/ /\ pdf_paths' = Append(pdf_paths, last'.path)
                   /\ last'.entry = entryIdx
                   /\ last'.feed = feedIdx)
       /\ (generated_pdfs' # generated_pdfs
             => /\ pc = "feed_return"
                /\ generated_pdfs' = generated_pdfs \o pdf_paths)
       /\ (pdf_files' # pdf_files => pdf_files' = generated_pdfs)
       /\ (files' # files => pc = "entry" /\ pc' \notin UploadPcs /\ calls = <<>>)
       /\ (pc \in UploadPcs => files' = files /\ pc' \in UploadPcs \cup {"done"})
       /\ (pc \notin UploadPcs \ {"up_done"} => calls' = calls)
       /\ (pc \in UploadPcs \ {"up_done"}
             => \A i \in 1..Len(calls') :
                  calls'[i].idx = IF pc \in {"up_version", "up_root"} THEN 0 ELSE upIdx)
       /\ (pc \in UploadPcs /\ upIdx' # upIdx => upIdx' = upIdx + 1)
      ]_vars

C24_Witness ==
    /\ pc = "up_put"
    /\ Len(feeds) = 2
    /\ Len(generated_pdfs) = 2
    /\ generated_pdfs[1] # generated_pdfs[2]
    /\ pdf_files = generated_pdfs
    /\ upIdx = 2

\* the feed subfolder of a local path by the configured output root: the name
\* of the parent directory when the grandparent segment is the output root
SubfolderUnderRoot(p, out) ==
    LET ps == Parts(p)
        n == Len(ps)
    IN  IF n >= 3 /\ ps[n - 2] = out[Len(out)] THEN ps[n - 1] ELSE ""

\* C25 as claimed: the feed subfolder used for the remote key of a path is
\* the name of its parent directory exactly when its grandparent segment is
\* the configured output root, whatever that root is, and absent otherwise.
C25_SubfolderFromConfiguredRoot ==
    cur.idx # 0
      => cur.key = get_remarkable_file_path(
                     pdf_files[cur.idx],
                     SubfolderUnderRoot(pdf_files[cur.idx], OUTPUT_DIR))

\* a bridge call on the root folder itself: the find and mkdir of
\* ensure_folder_exists
IsRootEnsureCall(c) == c.cmd \in {"find", "mkdir"} /\ c.arg = REMARKABLE_FOLDER

\* C26 as claimed: in one upload_pdfs call the root folder's
\* existence-or-creation is performed exactly once, before any per-file bridge
\* call, and no path's outcome depends on a root-folder ensure.
C26_RootEnsuredOncePerBatch ==
    /\ \A i \in 1..Len(calls) : IsRootEnsureCall(calls[i]) => calls[i].idx = 0
    /\ cur.root = "none"

\* how a path is counted, from the steps taken for it so far
PathOutcome(c) ==
    IF c.check1 = "none" THEN "none"
    ELSE IF c.check1 = "present" THEN "skipped"
    ELSE IF c.check1 = "raised" THEN "failed"
    ELSE IF c.check2 = "none" THEN "none"
    ELSE IF c.check2 = "present" THEN "uploaded"
    ELSE IF c.root = "none" THEN "none"
    ELSE IF c.root = "fail" THEN "failed"
    ELSE IF c.sub = "fail" THEN "failed"
    ELSE IF c.put = "none" THEN "none"
    ELSE IF c.put = "exit0" THEN "uploaded"
    ELSE "failed"

\* C26, amended: the version check is performed exactly once, before anything
\* else; the root folder is ensured once before the per-file loop, and again
\* inside upload_pdf for every path whose two existence checks did not report
\* the key present; the calls before the loop precede every per-file call;
\* the outcome of a path is determined by its existence checks, its own
\* root-folder ensure, its subfolder ensure and its put.
C26_PreconditionsThenPerFile ==
    [][/\ (pc = "up_version" => calls' = <<Call("version", "", 0)>>)
       /\ (pc # "up_version" => \A i \in 1..Len(calls') : calls'[i].cmd # "version")
       /\ pc' # "up_version"
       /\ (pc' = "up_root" => pc = "up_version")
       /\ (pc = "up_root"
             => /\ calls' # <<>>
                /\ \A i \in 1..Len(calls') :
                     IsRootEnsureCall(calls'[i]) /\ calls'[i].idx = 0)
       /\ (pc \notin {"up_version", "up_root"}
             => \A i \in 1..Len(calls') : calls'[i].idx = upIdx /\ upIdx >= 1)
       /\ (pc = "up_check2" /\ cur'.check2 # "present" => pc' = "up_ensure_root")
       /\ (pc = "up_ensure_root"
             => /\ cur.check1 \in {"absent", "failed"}
                /\ cur.check2 \in {"absent", "failed"}
                /\ calls' # <<>>
                /\ \A i \in 1..Len(calls') : IsRootEnsureCall(calls'[i]))
       /\ ((\E i \in 1..Len(calls') : IsRootEnsureCall(calls'[i]))
             => pc \in {"up_root", "up_ensure_root"})
       /\ cur'.counted = PathOutcome(cur')
      ]_vars

C26_Witness ==
    /\ gate.aborted = "no"
    /\ cur.idx = 2
    /\ cur.check1 = "absent"
    /\ cur.check2 = "absent"
    /\ cur.root = "fail"
    /\ cur.counted = "failed"
    /\ failed = 1
    /\ uploaded = 1

HasPut(cs) == \E i \in 1..Len(cs) : cs[i].cmd = "put"

\* C27: for a path whose remote key is reported absent, put is invoked only
\* after the path's remote subfolder has been ensured in the same upload_pdf
\* call (the find reported it, mkdir exited 0, or mkdir failed saying it
\* already exists: in each case the remote store holds the folder); when the
\* subfolder cannot be ensured put is not invoked and the path is counted
\* failed; a put that exits non-zero, times out or raises counts the path
\* failed and a put that exits 0 counts it uploaded.
C27_PutAfterSubfolderEnsured ==
    [][/\ (HasPut(calls') <=> pc = "up_put")
       /\ (pc = "up_put"
             => /\ cur.idx = upIdx
                /\ cur.check1 # "present" /\ cur.check2 # "present"
                /\ (CurSub # ""
                      => cur.sub = "ok" /\ TargetFolder(CurSub) \in store)
                /\ cur'.put \in {"exit0", "exit", "timeout", "error"}
                /\ IF cur'.put = "exit0"
                   THEN uploaded' = uploaded + 1 /\ failed' = failed
                   ELSE uploaded' = uploaded /\ failed' = failed + 1
                /\ skipped' = skipped)
       /\ (pc = "up_ensure_sub"
             => /\ CurSub # ""
                /\ cur'.sub \in {"ok", "fail"}
                /\ (cur'.sub = "ok"
                      => pc' = "up_put" /\ TargetFolder(CurSub) \in store')
                /\ (cur'.sub = "fail"
                      => /\ pc' # "up_put"
                         /\ upIdx' = upIdx + 1
                         /\ failed' = failed + 1
                         /\ uploaded' = uploaded
                         /\ skipped' = skipped))
      ]_vars

C27_Witness ==
    /\ cur.idx = 1
    /\ FeedSubfolder(pdf_files[1]) # ""
    /\ cur.sub = "ok"
    /\ cur.put = "exit"
    /\ cur.counted = "failed"
    /\ failed = 1
    /\ TargetFolder(FeedSubfolder(pdf_files[1])) \in store
    /\ cur.key \notin store

\* C28 as claimed: put is invoked at most once for each batch element, and
\* put is not invoked again in the same run for a document whose put failed.
C28_NoSecondPutAfterFailure ==
    [][HasPut(calls')
         => /\ pc = "up_put"
            /\ upIdx' = upIdx + 1
            /\ PutKey(CurPath, TargetFolder(CurSub)) \notin gate.putFailed
      ]_vars

\* C29: the statistics are created fresh at the start of each run: whatever
\* an earlier run on the same processor left in them, the run starts from
\* zero, and what it returns counts only its own events: the resolved entries
\* are the paths of this run's batch, the remote counts are those of this
\* run's upload, and they are zero when this run's batch is empty.
C29_StatsFreshEachRun ==
    [][/\ (pc = "start" => stats' = ZeroStats)
       /\ (pc' = "done"
             => /\ stats'.pdfs_generated + stats'.pdfs_skipped = Len(generated_pdfs')
                /\ stats'.entries_recent <= stats'.entries_found
                /\ stats'.entries_found <= MaxEntries * stats'.feeds_processed
                /\ stats'.feeds_processed <= Len(feeds')
                /\ stats'.feeds_failed <= Len(feeds')
                /\ IF generated_pdfs' = <<>>
                   THEN /\ stats'.remarkable_uploaded = 0
                        /\ stats'.remarkable_skipped = 0
                        /\ stats'.remarkable_failed = 0
                   ELSE /\ pc = "up_done"
                        /\ stats'.remarkable_uploaded = upload_results.uploaded
                        /\ stats'.remarkable_skipped = upload_results.skipped
                        /\ stats'.remarkable_failed = upload_results.failed
                        /\ SumOfCounts(upload_results) = Len(generated_pdfs'))
      ]_vars

C29_Witness ==
    /\ pc = "done"
    /\ upload_results.uploaded = 1
    /\ store # {}
    /\ feeds # <<>>
    /\ generated_pdfs = <<>>
    /\ stats.feeds_failed = Len(feeds)
    /\ stats.remarkable_uploaded = 0
    /\ stats.pdfs_generated = 0

\* C30: nothing guards against runs side by side.  A run that has passed
\* the local existence check writes the file whatever another run has written
\* since, and a run that has passed the remote existence checks and ensured
\* the folders invokes put whatever another run has uploaded since: the
\* checks are never repeated and nothing makes a run wait for another.
C30_NoGuardAgainstConcurrentRuns ==
    [][\A run \in Runs :
         /\ (runs[run].pc = "gen_write" /\ runs'[run] # runs[run]
               => /\ runs'[run].local \in {"generated", "failed"}
                  /\ (runs'[run].local = "generated" => RacePath \in files'))
         /\ (runs[run].pc = "up_put" /\ runs'[run] # runs[run]
               => runs'[run].put # "none")
         /\ (runs'[run] # runs[run]
               => \A other \in Runs \ {run} : runs'[other] = runs[other])
      ]_vars

\* both runs passed the existence checks for the same document, both rendered
\* it and both invoked put for it
C30_Witness ==
    /\ runs[1].local = "generated"
    /\ runs[2].local = "generated"
    /\ runs[1].put # "none"
    /\ runs[2].put # "none"

\* the characters a derived name may hold
AllowedChars == AlnumChars \cup {" ", "-", "_"}

OnlyAllowed(t) == \A i \in 1..Len(t) : t[i] \in AllowedChars

\* t is obtained from u by deleting characters
RECURSIVE IsSubsequence(_, _)
IsSubsequence(t, u) ==
    IF t = <<>> THEN TRUE
    ELSE IF u = <<>> THEN FALSE
    ELSE IF Head(t) = Head(u) THEN IsSubsequence(Tail(t), Tail(u))
    ELSE IsSubsequence(t, Tail(u))

\* the sanitized title and feed directory of the entry being looked at, as
\* characters
PathTitle == SafeEntryTitle(Strip(entries[1].title))
PathFeedDir == Prefix(Strip(SelectSeq(feed_title, SafeChar)), FeedDirMax)

\* C31: for every entry title, feed title and publication date the feed
\* directory holds only alphanumerics, space, hyphen and underscore and at
\* most 50 characters; the title part of the file name holds only those
\* characters and at most 60; the file name is the MM-DD-YYYY date, a space,
\* the sanitized title and ".pdf"; disallowed characters are deleted, never
\* substituted (the sanitized name is the original with characters removed,
\* and a name with nothing to remove is kept as it is); the same title, feed
\* and date give the same path.
C31_DerivedPath ==
    (pc = "feed_return" /\ last.kind \in {"generated", "skipped"})
      => /\ OnlyAllowed(PathFeedDir) /\ Len(PathFeedDir) <= 50
         /\ OnlyAllowed(PathTitle) /\ Len(PathTitle) <= 60
         /\ IsSubsequence(PathTitle, entries[1].title)
         /\ IsSubsequence(PathFeedDir, feed_title)
         /\ (OnlyAllowed(entries[1].title) /\ Strip(entries[1].title) = entries[1].title
               /\ Len(entries[1].title) <= 60
               => PathTitle = entries[1].title)
         /\ (OnlyAllowed(feed_title) /\ Strip(feed_title) = feed_title
               /\ Len(feed_title) <= 50
               => PathFeedDir = feed_title)
         /\ Len(DateStr(last.date)) = 10
         /\ last.path.stem = DateStr(last.date) \o " " \o Join(PathTitle)
         /\ last.path.suffix = ".pdf"
         /\ last.path.dirs = IF PathFeedDir = <<>> THEN OUTPUT_DIR
                             ELSE Append(OUTPUT_DIR, Join(PathFeedDir))
         /\ last.path = OutputPath(OUTPUT_DIR, Strip(entries[1].title), feed_title,
                                   entries[1].published_parsed)

C31_Witness ==
    /\ pc = "feed_return"
    /\ last.kind = "generated"
    /\ ~OnlyAllowed(entries[1].title)
    /\ Len(SelectSeq(entries[1].title, SafeChar)) > TitleMax
    /\ Len(PathTitle) = TitleMax
    /\ ~OnlyAllowed(feed_title)
    /\ Len(PathFeedDir) = FeedDirMax

\* content with no forbidden element and no attribute outside the allow-list
IsSanitized(content) ==
    \A i \in 1..Len(Parse(content).els) :
        /\ Parse(content).els[i].tag \notin ForbiddenTags
        /\ \A j \in 1..Len(Parse(content).els[i].attrs) :
             Parse(content).els[i].attrs[j] \in safe_attrs

\* C32 as claimed: the content of every NormalizedEntry extract_entry_data
\* produces has no script, style, iframe, object or embed element and no
\* attribute outside the allow-list, for every input content, including
\* input on which the sanitizer fails.
C32_ContentIsSanitized ==
    (pc = "feed_return" /\ last.kind \in {"failed", "skipped", "generated"})
      => IsSanitized(last.content)

\* a find that exited 0 with standard output that is non-empty after trimming
ExitZeroWithOutput(r) ==
    r.kind = "exit" /\ r.rc = 0 /\ r.out \notin {"", " ", "\n", "\t"}

\* the remote paths the gate may look up for the path it is at
LookedUp ==
    {REMARKABLE_FOLDER}
    \cup (IF upIdx \in 1..Len(pdf_files) THEN {CurKey, TargetFolder(CurSub)} ELSE {})

\* C33: a remote path is treated as existing exactly when find exits 0 with
\* output that is non-empty after trimming; exit 0 with empty output and any
\* non-zero exit are treated as not existing, for files (the path is skipped
\* or not), the root folder and subfolders (mkdir is attempted or not) alike.
C33_FindMeansExists ==
    /\ \A path \in LookedUp : \A r \in FindResults(path) :
         /\ file_exists_in_remarkable(r) <=> ExitZeroWithOutput(r)
         /\ (r.kind = "exit" => (EnsureCallsMkdir(r) <=> ~ExitZeroWithOutput(r)))
         /\ (ExitZeroWithOutput(r) => \A mr \in MkdirResults(path) : EnsureOk(r, mr))
         /\ (r.kind = "exit" /\ (r.rc # 0 \/ r.out \in {"", "\n"})
               => ~file_exists_in_remarkable(r) /\ EnsureCallsMkdir(r))
    /\ (cur.check1 = "present" => cur.key \in store /\ cur.counted = "skipped")
    /\ (cur.check2 = "present" => cur.key \in store /\ cur.put = "none")
    /\ (cur.check1 = "absent" /\ cur.check2 = "absent" /\ cur.put = "none"
          => cur.key \notin store)

C33_Witness ==
    /\ Len(calls) = 1
    /\ calls[1] = Call("find", REMARKABLE_FOLDER, 2)
    /\ cur.idx = 2
    /\ cur.check1 = "absent"
    /\ cur.check2 = "failed"
    /\ cur.root = "ok"
    /\ REMARKABLE_FOLDER \in store
    /\ cur.key \notin store
    /\ skipped = 1

\* C34 as claimed: a path is never counted uploaded without a put for it
\* that exited 0, also when the two existence checks made for the path give
\* different answers; so the uploaded count is the number of puts that
\* exited 0.
C34_UploadedMeansPut ==
    /\ (cur.counted = "uploaded" => cur.put = "exit0")
    /\ (pc = "up_done" /\ upload_results.uploaded > 0
          => \E k \in DOMAIN pdf_files :
               get_remarkable_file_path(pdf_files[k], FeedSubfolder(pdf_files[k]))
                 \in store)

\* C35 as claimed: at the end of every run feeds_processed + feeds_failed is
\* the number of feed URLs loaded, no feed being counted both as processed
\* and as failed, also when an exception is raised after a successful fetch.
C35_FeedsCountedOnce ==
    pc = "done" => stats.feeds_processed + stats.feeds_failed = Len(feeds)

\* C36 as claimed: at the end of every run pdfs_generated + pdfs_skipped +
\* pdfs_failed = entries_recent and entries_recent <= entries_found, under
\* every pattern of per-entry errors, including an error raised during
\* recency classification.
C36_EntriesCountedOnce ==
    pc = "done"
      => /\ stats.pdfs_generated + stats.pdfs_skipped + stats.pdfs_failed
              = stats.entries_recent
         /\ stats.entries_recent <= stats.entries_found

\* C37 as claimed: the batch handed to the remote gate never contains the
\* same local path twice, also when two distinct recent entries of one run
\* have titles that sanitize to the same file name; equivalently, every entry
\* counted pdfs_skipped had its file on disk before the run rendered anything.
C37_BatchHasNoDuplicates ==
    /\ \A i, j \in DOMAIN generated_pdfs :
         i # j => generated_pdfs[i] # generated_pdfs[j]
    /\ (last.kind = "skipped" => \A r \in rendered : r[3] # last.path)

\* C38: for every path the remote key checked for existence is the folder
\* passed to put, "/", and the file name without its extension; a put that
\* exits 0 leaves the document at that key, so a later existence check for
\* the same local path looks where the document was uploaded.
C38_KeyIsPutTarget ==
    [][/\ (pc \in {"up_check1", "up_check2"} /\ calls' # <<>>
             => calls' = <<Call("find", TargetFolder(CurSub) \o "/" \o CurPath.stem,
                                upIdx)>>)
       /\ (pc = "up_put"
             => /\ Len(calls') = 1
                /\ calls'[1].cmd = "put"
                /\ cur.key = calls'[1].arg \o "/" \o CurPath.stem
                /\ (cur'.put = "exit0" => cur.key \in store'))
       /\ ~(/\ pc = "up_check1"
             /\ cur.put = "exit0"
             /\ cur.idx = upIdx - 1
             /\ pdf_files[cur.idx] = CurPath
             /\ cur'.check1 = "absent")
      ]_vars

C38_Witness ==
    /\ cur.idx = 2
    /\ pdf_files[1] = pdf_files[2]
    /\ cur.check1 = "present"
    /\ uploaded = 1
    /\ skipped = 1
    /\ failed = 0
    /\ gate.putFailed = {}

\* C39: a run that follows a run whose renders and puts all succeeded, over
\* the same entries, with the files and remote entries left in place and a
\* bridge that answers correctly, invokes neither the document engine nor
\* put: no file and no remote entry changes, every existence check reports
\* the document present, pdfs_generated = 0 and remarkable_uploaded = 0, and
\* every document is counted skipped locally and remotely.
C39_FollowingRunSkipsAll ==
    [][/\ files' = files
       /\ store' = store
       /\ ~HasPut(calls')
       /\ last'.kind \notin {"generated", "failed", "generate_raised"}
       /\ ~last'.engine
       /\ pc' \notin {"up_check2", "up_ensure_root", "up_ensure_sub", "up_put"}
       /\ stats'.pdfs_generated = 0
       /\ (pc' = "done"
             => /\ stats'.remarkable_uploaded = 0
                /\ stats'.remarkable_failed = 0
                /\ stats'.pdfs_skipped = Len(generated_pdfs')
                /\ stats'.remarkable_skipped = Len(generated_pdfs'))
      ]_vars

C39_Witness ==
    /\ pc = "done"
    /\ Len(generated_pdfs) = 2
    /\ generated_pdfs[1] # generated_pdfs[2]
    /\ stats.pdfs_skipped = 2
    /\ stats.remarkable_skipped = 2
    /\ stats.pdfs_generated = 0
    /\ stats.remarkable_uploaded = 0

\* C19: every run reaches the return of process_all_feeds, whatever fails
\* on the way.
C19_RunCompletes == <>(pc = "done")

C19_Witness ==
    /\ pc = "done"
    /\ Len(feeds) = 2
    /\ stats.feeds_failed = 2
    /\ stats.feeds_processed = 0

====
